---- MODULE Spec2Model ----
(***************************************************************************)
(* Overview canvas of Hajimi_label: items (RefItem), the level-of-detail   *)
(* streamer with its debounce timer, the resize interaction, the rectangle *)
(* packer behind auto-arrange and the image loader.                        *)
(*                                                                         *)
(* Numbers.  Scene coordinates and scale factors are Python floats / Qt    *)
(* qreals in the program.  Here they are exact rationals <<n, d>> (d > 0,  *)
(* lowest terms), so that an equality that fails is a real difference and  *)
(* not a rounding artefact.  Long chains of wheel notches are rounded to   *)
(* SCALE_QUANTUM (see Quantize).                                           *)
(***************************************************************************)
EXTENDS Integers, Sequences, FiniteSets, TLC

VARIABLES
    scene,          \* QGraphicsScene items in insertion order: Seq of item records
    decodable,      \* file ids whose image data decodes right now (the file system)
    grabber,        \* index of the item that took the last mouse press, 0 if none
    zoom,           \* QGraphicsView.transform().m11(), a rational
    hval, vval,     \* horizontal / vertical scroll-bar values (view pixels)
    vw, vh,         \* viewport().rect() width and height (view pixels)
    is_panning,     \* OverviewCanvas._is_panning
    pan_start,      \* OverviewCanvas._pan_start (view pixels)
    space_pressed,  \* OverviewCanvas._space_pressed
    lod_active,     \* lod_timer.isActive()
    lod_remaining,  \* milliseconds until the running lod_timer times out
    revision,       \* "win" (src/Hajimi_Label_Win) or "legacy" (src/overview.py)
    current_folder, \* MainWindow.current_folder ("" when no folder is open)
    enable_overview,    \* config["enable_overview"]
    max_image_width,    \* config["max_image_width"]
    grid_size,          \* config["grid_size"]
    files,          \* MainWindow.files: the file ids listed in the current folder
    current_file,   \* MainWindow.current_file: a file id, 0 for ""
    results,        \* MainWindow.results: a set of <<file id, decision>> pairs
    current_row,    \* side_bar.file_list.currentRow(), -1 when no row is current
    sidecar,        \* review_results.json of every folder, as results is kept
    hist            \* history record: observations used only to state properties

vars == <<scene, decodable, grabber, zoom, hval, vval, vw, vh, is_panning, pan_start,
          space_pressed, lod_active, lod_remaining, revision, current_folder,
          enable_overview, max_image_width, grid_size, files, current_file,
          results, current_row, sidecar, hist>>

itemVars == <<scene, decodable, grabber>>
viewVars == <<zoom, hval, vval, vw, vh>>
panVars == <<is_panning, pan_start, space_pressed>>
timerVars == <<lod_active, lod_remaining>>
reviewVars == <<files, current_file, results, current_row, sidecar>>
mainVars == <<current_folder, enable_overview, max_image_width, grid_size, reviewVars>>

-----------------------------------------------------------------------------
(* Exact rational arithmetic.                                              *)

Abs(n) == IF n < 0 THEN -n ELSE n

RECURSIVE Gcd(_, _)
Gcd(a, b) == IF b = 0 THEN a ELSE Gcd(b, a % b)

R(n, d) ==
    LET g == Gcd(Abs(n), Abs(d))
        s == IF d < 0 THEN -1 ELSE 1
    IN  <<(s * n) \div g, (s * d) \div g>>

I2R(n) == <<n, 1>>
Lcm(a, b) == (a \div Gcd(a, b)) * b
RAdd(a, b) ==
    LET l == Lcm(a[2], b[2])
    IN  R(a[1] * (l \div a[2]) + b[1] * (l \div b[2]), l)
RNeg(a) == <<-a[1], a[2]>>
RSub(a, b) == RAdd(a, RNeg(b))
RMul(a, b) ==
    LET g1 == Gcd(Abs(a[1]), b[2])
        g2 == Gcd(Abs(b[1]), a[2])
    IN  R((a[1] \div g1) * (b[1] \div g2), (a[2] \div g2) * (b[2] \div g1))
RDiv(a, b) == RMul(a, IF b[1] < 0 THEN <<-b[2], -b[1]>> ELSE <<b[2], b[1]>>)
RLt(a, b) == RSub(a, b)[1] < 0
RLe(a, b) == RSub(a, b)[1] <= 0
RMax(a, b) == IF RLt(a, b) THEN b ELSE a
RMin(a, b) == IF RLt(b, a) THEN b ELSE a
RAbs(a) == <<Abs(a[1]), a[2]>>
RFloor(a) == a[1] \div a[2]
RCeil(a) == -((-a[1]) \div a[2])

RECURSIVE IsqrtBetween(_, _, _)
IsqrtBetween(n, lo, hi) ==
    IF lo >= hi THEN lo
    ELSE LET mid == (lo + hi + 1) \div 2
         IN  IF mid * mid <= n THEN IsqrtBetween(n, mid, hi)
                               ELSE IsqrtBetween(n, lo, mid - 1)

\* floor(sqrt(n)) for 0 <= n < 2^30
Isqrt(n) == IsqrtBetween(n, 0, IF n < 32767 THEN n ELSE 32767)
IsSquare(n) == Isqrt(n) * Isqrt(n) = n
RSqrt(a) == <<Isqrt(a[1]), Isqrt(a[2])>>

-----------------------------------------------------------------------------
(* Points and rectangles (QPointF, QRectF).  A rectangle is                *)
(* [x |-> left, y |-> top, w |-> width, h |-> height].                     *)

PAdd(p, q) == <<RAdd(p[1], q[1]), RAdd(p[2], q[2])>>
PSub(p, q) == <<RSub(p[1], q[1]), RSub(p[2], q[2])>>
PScale(p, f) == <<RMul(p[1], f), RMul(p[2], f)>>
IPt(x, y) == <<I2R(x), I2R(y)>>

Rect(x, y, w, h) == [x |-> x, y |-> y, w |-> w, h |-> h]
Right(r) == RAdd(r.x, r.w)
Bottom(r) == RAdd(r.y, r.h)
TopLeft(r) == <<r.x, r.y>>
TopRight(r) == <<Right(r), r.y>>
BottomLeft(r) == <<r.x, Bottom(r)>>
BottomRight(r) == <<Right(r), Bottom(r)>>

\* QRectF::united for two rectangles of positive size
United(a, b) ==
    LET l == RMin(a.x, b.x)
        t == RMin(a.y, b.y)
        r == RMax(Right(a), Right(b))
        m == RMax(Bottom(a), Bottom(b))
    IN  Rect(l, t, RSub(r, l), RSub(m, t))

\* QRectF::intersects: false for null rectangles and for rectangles that only touch
Intersects(a, b) ==
    /\ a.w # I2R(0) /\ a.h # I2R(0) /\ b.w # I2R(0) /\ b.h # I2R(0)
    /\ RLt(a.x, Right(b)) /\ RLt(b.x, Right(a))
    /\ RLt(a.y, Bottom(b)) /\ RLt(b.y, Bottom(a))

\* the two rectangles share area
Overlap(a, b) ==
    /\ RLt(a.x, Right(b)) /\ RLt(b.x, Right(a))
    /\ RLt(a.y, Bottom(b)) /\ RLt(b.y, Bottom(a))

\* squared length of QLineF(p, q)
LenSq(p, q) ==
    LET d == PSub(q, p) IN RAdd(RMul(d[1], d[1]), RMul(d[2], d[2]))

\* QPointF.manhattanLength() of p - q
Manhattan(p, q) ==
    LET d == PSub(p, q) IN RAdd(RAbs(d[1]), RAbs(d[2]))

\* (QLineF(a, p).length() / QLineF(a, q).length()) squared.  The two difference
\* vectors are first brought to a common integer scale, which leaves the ratio
\* as it is and keeps the squares small.
LengthRatioSq(a, p, q) ==
    LET u == PSub(p, a)
        v == PSub(q, a)
        l == Lcm(Lcm(u[1][2], u[2][2]), Lcm(v[1][2], v[2][2]))
        ux == u[1][1] * (l \div u[1][2])
        uy == u[2][1] * (l \div u[2][2])
        vx == v[1][1] * (l \div v[1][2])
        vy == v[2][1] * (l \div v[2][2])
        g == Gcd(Gcd(Abs(ux), Abs(uy)), Gcd(Abs(vx), Abs(vy)))
    IN  R((ux \div g) * (ux \div g) + (uy \div g) * (uy \div g),
          (vx \div g) * (vx \div g) + (vy \div g) * (vy \div g))

\* the point a + z * (q - a) for a complex factor z = <<re, im>>: q turned and
\* stretched about a
Turned(a, q, z) ==
    LET v == PSub(q, a)
    IN  PAdd(a, <<RSub(RMul(z[1], v[1]), RMul(z[2], v[2])),
                  RAdd(RMul(z[1], v[2]), RMul(z[2], v[1]))>>)

-----------------------------------------------------------------------------
(* RefItem.                                                                *)

MIN_SCALE == <<1, 20>>                \* 0.05
HIGH_RES_THRESHOLD == <<1, 2>>        \* 0.5
Corners == {"tl", "tr", "bl", "br"}
NoPoint == <<>>

\* RefItem.__init__: a cold, unselected item at scale 1 whose local origin is the
\* centre of its thumbnail (setOffset(-w/2, -h/2)); tw x th is the thumbnail size.
NewItem(file, tw, th, pos) ==
    [file |-> file, tw |-> tw, th |-> th, pos |-> pos, scale |-> I2R(1),
     selected |-> FALSE, is_high_res |-> FALSE, high_res_pixmap |-> FALSE,
     resize_corner |-> "none", is_resizing |-> FALSE,
     start_mouse_pos |-> NoPoint, start_scale |-> I2R(0), anchor_scene |-> NoPoint,
     drag_corner_scene_start |-> NoPoint, anchor_local |-> NoPoint,
     states |-> <<>>]

\* QGraphicsPixmapItem.boundingRect() in item coordinates
BoundingRect(it) == Rect(R(-it.tw, 2), R(-it.th, 2), I2R(it.tw), I2R(it.th))

\* QGraphicsItem.mapToScene: scale about the local origin, then translate by pos()
MapToScene(it, p) == PAdd(it.pos, PScale(p, it.scale))

\* QGraphicsItem.sceneBoundingRect(): the item's footprint
SceneBoundingRect(it) ==
    LET b == BoundingRect(it)
        tl == MapToScene(it, TopLeft(b))
    IN  Rect(tl[1], tl[2], RMul(b.w, it.scale), RMul(b.h, it.scale))

\* QPixmap(full_path).isNull() is false: the file decodes
Decodes(file) == file \in decodable

\* mutant: the flag is raised whether or not the file decoded
load_high_res_FlagAlways(it) ==
    IF it.is_high_res THEN it
    ELSE [it EXCEPT !.high_res_pixmap = Decodes(it.file), !.is_high_res = TRUE]

\* mutant: no early return, the file is decoded again on every call
load_high_res_Reload(it) ==
    IF Decodes(it.file)
    THEN [it EXCEPT !.high_res_pixmap = TRUE, !.is_high_res = TRUE]
    ELSE [it EXCEPT !.high_res_pixmap = FALSE, !.is_high_res = FALSE]

load_high_res(it) ==
    IF it.is_high_res THEN it
    ELSE IF Decodes(it.file)
         THEN [it EXCEPT !.high_res_pixmap = TRUE, !.is_high_res = TRUE]
         ELSE it

unload_high_res(it) ==
    IF ~it.is_high_res THEN it
    ELSE [it EXCEPT !.high_res_pixmap = FALSE, !.is_high_res = FALSE]

\* the corner of rectangle r named c, and the one opposite to it
CornerOf(r, c) ==
    CASE c = "tl" -> TopLeft(r)
      [] c = "tr" -> TopRight(r)
      [] c = "bl" -> BottomLeft(r)
      [] c = "br" -> BottomRight(r)

Opposite(c) ==
    CASE c = "tl" -> "br"
      [] c = "tr" -> "bl"
      [] c = "bl" -> "tr"
      [] c = "br" -> "tl"

HOVER_MARGIN == 20

\* hoverMoveEvent at item position pos under a view of scale view_scale
hoverMoveEvent(it, pos, view_scale) ==
    IF it.selected
    THEN LET rect == BoundingRect(it)
             margin == RDiv(I2R(HOVER_MARGIN), RMul(it.scale, view_scale))
             near(c) == RLt(Manhattan(pos, CornerOf(rect, c)), margin)
         IN  [it EXCEPT !.resize_corner =
                 IF near("tl") THEN "tl"
                 ELSE IF near("tr") THEN "tr"
                 ELSE IF near("bl") THEN "bl"
                 ELSE IF near("br") THEN "br"
                 ELSE "none"]
    ELSE it

\* scene().selectedItems() restricted to RefItems, as indices into the scene
SelectedItems(sc) == {j \in DOMAIN sc : sc[j].selected}

RECURSIVE UnitedAll(_, _)
\* the union of the footprints of the items S (S not empty)
UnitedAll(sc, S) ==
    LET j == CHOOSE k \in S : TRUE
    IN  IF S = {j} THEN SceneBoundingRect(sc[j])
        ELSE United(SceneBoundingRect(sc[j]), UnitedAll(sc, S \ {j}))

RECURSIVE SetToSeq(_)
SetToSeq(S) ==
    IF S = {} THEN <<>>
    ELSE LET j == CHOOSE k \in S : \A m \in S : k <= m
         IN  <<j>> \o SetToSeq(S \ {j})

\* _selected_items_state: start scale and start position of every selected item
ItemsState(sc, S) ==
    LET order == SetToSeq(S)
    IN  [k \in DOMAIN order |->
            [item |-> order[k], start_scale |-> sc[order[k]].scale,
             start_pos |-> sc[order[k]].pos]]

\* mousePressEvent of item i with the left button while _resize_corner is set:
\* the item as it is after the press
PressResize(sc, i, scene_pos) ==
    LET it == sc[i]
        sel == SelectedItems(sc)
        multi == Cardinality(sel) > 1
        group_rect == UnitedAll(sc, sel)
        rect == BoundingRect(it)
        anchor_local == CornerOf(rect, Opposite(it.resize_corner))
        drag_corner_local == CornerOf(rect, it.resize_corner)
    IN  [it EXCEPT
            !.is_resizing = TRUE,
            !.start_mouse_pos = scene_pos,
            !.start_scale = it.scale,
            !.anchor_scene =
                IF multi THEN CornerOf(group_rect, Opposite(it.resize_corner))
                ELSE MapToScene(it, anchor_local),
            !.drag_corner_scene_start =
                IF multi THEN CornerOf(group_rect, it.resize_corner)
                ELSE MapToScene(it, drag_corner_local),
            !.anchor_local = IF multi THEN @ ELSE anchor_local,
            !.states = ItemsState(sc, sel)]

\* mutant: the clamp to the minimum scale is missing
ClampScale_None(new_scale) == new_scale

\* if new_scale < 0.05: new_scale = 0.05
ClampScale(new_scale) ==
    IF RLt(new_scale, MIN_SCALE) THEN MIN_SCALE ELSE new_scale

\* mutant: the scaled item is left where setScale put it
ResizeSingle_NoCompensation(it, scale_factor) ==
    [it EXCEPT !.scale = ClampScale(RMul(it.start_scale, scale_factor))]

\* single item: scale with the diagonal anchor locked
ResizeSingle(it, scale_factor) ==
    LET scaled == [it EXCEPT !.scale = ClampScale(RMul(it.start_scale, scale_factor))]
        new_anchor_scene_current == MapToScene(scaled, it.anchor_local)
        diff == PSub(it.anchor_scene, new_anchor_scene_current)
    IN  [scaled EXCEPT !.pos = PAdd(scaled.pos, diff)]

\* mutant: the group is scaled about the scene origin instead of the anchor
ResizeMember_AboutOrigin(it, state, anchor_scene, scale_factor) ==
    [it EXCEPT !.scale = ClampScale(RMul(state.start_scale, scale_factor)),
               !.pos = PScale(state.start_pos, scale_factor)]

\* multi-select: one selected item, scaled and moved relative to the anchor
ResizeMember(it, state, anchor_scene, scale_factor) ==
    [it EXCEPT !.scale = ClampScale(RMul(state.start_scale, scale_factor)),
               !.pos = PAdd(anchor_scene,
                            PScale(PSub(state.start_pos, anchor_scene), scale_factor))]

\* mouseMoveEvent of the resizing item i with the pointer at scene position
\* mutant: the original diagonal is measured to the pointer position at the press
MoveResize_FromPress(sc, i, mouse_pos) ==
    LET it == sc[i]
        original_sq == LenSq(it.anchor_scene, it.start_mouse_pos)
        scale_factor ==
            RSqrt(LengthRatioSq(it.anchor_scene, mouse_pos, it.start_mouse_pos))
    IN  IF ~RLt(I2R(1), original_sq) THEN sc
        ELSE IF Len(it.states) > 1
        THEN [j \in DOMAIN sc |->
                IF \E k \in DOMAIN it.states : it.states[k].item = j
                THEN LET k == CHOOSE k \in DOMAIN it.states : it.states[k].item = j
                     IN  ResizeMember(sc[j], it.states[k],
                                      it.anchor_scene, scale_factor)
                ELSE sc[j]]
        ELSE [sc EXCEPT ![i] = ResizeSingle(it, scale_factor)]

\* mouse_pos: the scene after the move.  scale_factor is new_diagonal /
\* original_diagonal; nothing changes unless original_diagonal > 1.
MoveResize(sc, i, mouse_pos) ==
    LET it == sc[i]
        original_sq == LenSq(it.anchor_scene, it.drag_corner_scene_start)
        scale_factor ==
            RSqrt(LengthRatioSq(it.anchor_scene, mouse_pos, it.drag_corner_scene_start))
    IN  IF ~RLt(I2R(1), original_sq) THEN sc
        ELSE IF Len(it.states) > 1
        THEN [j \in DOMAIN sc |->
                IF \E k \in DOMAIN it.states : it.states[k].item = j
                THEN LET k == CHOOSE k \in DOMAIN it.states : it.states[k].item = j
                     IN  ResizeMember(sc[j], it.states[k],
                                      it.anchor_scene, scale_factor)
                ELSE sc[j]]
        ELSE [sc EXCEPT ![i] = ResizeSingle(it, scale_factor)]

-----------------------------------------------------------------------------
(* OverviewCanvas: viewport, level-of-detail timer, streamer.              *)

LOD_INTERVAL_MS == 200

\* mapToScene(viewport().rect()).boundingRect(): the visible world rectangle
ViewRectOf(z, h, v, w, ht) ==
    Rect(RDiv(I2R(h), z), RDiv(I2R(v), z), RDiv(I2R(w), z), RDiv(I2R(ht), z))

ViewRect == ViewRectOf(zoom, hval, vval, vw, vh)

\* mutant: the threshold itself counts as zoomed in
ShouldLoadHighRes_AtThreshold(scale) == RLe(HIGH_RES_THRESHOLD, scale)

\* should_load_high_res = scale > 0.5
ShouldLoadHighRes(scale) == RLt(HIGH_RES_THRESHOLD, scale)

\* mutant: an item that left the visible rectangle keeps its high-res bitmap
UpdateLodItem_NoEvict(it, view_rect, should_load_high_res) ==
    IF should_load_high_res
    THEN IF Intersects(SceneBoundingRect(it), view_rect)
         THEN load_high_res(it)
         ELSE it
    ELSE IF it.is_high_res THEN unload_high_res(it) ELSE it

\* body of the loop of update_lod for one item
UpdateLodItem(it, view_rect, should_load_high_res) ==
    IF should_load_high_res
    THEN IF Intersects(SceneBoundingRect(it), view_rect)
         THEN load_high_res(it)
         ELSE IF it.is_high_res THEN unload_high_res(it) ELSE it
    ELSE IF it.is_high_res THEN unload_high_res(it) ELSE it

\* mutant: the pass ends at the first item whose decode fails; scene.items() runs
\* from the last item added to the first, so the items before it are left alone
UpdateLodScene_StopsAtFailure(sc, view_rect, scale) ==
    LET fails(i) == /\ ShouldLoadHighRes(scale)
                    /\ Intersects(SceneBoundingRect(sc[i]), view_rect)
                    /\ ~sc[i].is_high_res /\ ~Decodes(sc[i].file)
    IN  [i \in DOMAIN sc |->
            IF \E j \in DOMAIN sc : j > i /\ fails(j)
            THEN sc[i]
            ELSE UpdateLodItem(sc[i], view_rect, ShouldLoadHighRes(scale))]

\* update_lod over scene.items()
UpdateLodScene(sc, view_rect, scale) ==
    [i \in DOMAIN sc |-> UpdateLodItem(sc[i], view_rect, ShouldLoadHighRes(scale))]

\* mutant: a running timer is left alone (throttling instead of debouncing)
TimerStart_NoRearm(active, remaining) ==
    IF active THEN remaining ELSE LOD_INTERVAL_MS

\* QTimer.start() on the single-shot lod_timer: (re)starts the full interval
\* whether or not the timer is already running
TimerStart(active, remaining) == LOD_INTERVAL_MS

schedule_lod_update ==
    /\ lod_active' = TRUE
    /\ lod_remaining' = TimerStart(lod_active, lod_remaining)

\* the amount an input event multiplies the scale by: 1.1 for a notch up, 0.9 down
ZoomFactor(up) == IF up THEN <<11, 10>> ELSE <<9, 10>>

\* Floats carry finitely many digits: a scale whose exact denominator exceeds
\* SCALE_QUANTUM is rounded down to a multiple of 1 / SCALE_QUANTUM.
SCALE_QUANTUM == 10000
Quantize(a) ==
    IF a[2] <= SCALE_QUANTUM THEN a
    ELSE R((a[1] * SCALE_QUANTUM) \div a[2], SCALE_QUANTUM)

\* setTransformationAnchor(AnchorUnderMouse): after scaling by f the scene point
\* under the mouse (m view pixels from the viewport's left/top) is under it again
AnchorScroll(val, m, f) == RFloor(RMul(I2R(val + m), f)) - m

-----------------------------------------------------------------------------
(* Handlers of OverviewCanvas.  No handler reads or writes hist: each      *)
(* specification below adds its own observations to the handlers it uses.  *)

\* mousePressEvent with the middle button, or the left button while space is held
CanvasPressPan(button, pos) ==
    /\ button = "middle" \/ (button = "left" /\ space_pressed)
    /\ is_panning' = TRUE
    /\ pan_start' = pos
    /\ UNCHANGED <<itemVars, viewVars, space_pressed, timerVars, revision, mainVars>>

\* mutant: the move is also handed to the base class, which drags the selected
\* items along with the pointer
CanvasMovePan_DragsItems(pos) ==
    /\ is_panning
    /\ hval' = hval - (pos[1] - pan_start[1])
    /\ vval' = vval - (pos[2] - pan_start[2])
    /\ pan_start' = pos
    /\ IF hval' # hval \/ vval' # vval
       THEN schedule_lod_update
       ELSE UNCHANGED timerVars
    /\ scene' = [j \in DOMAIN scene |->
                    IF scene[j].selected
                    THEN [scene[j] EXCEPT !.pos =
                            PAdd(@, PScale(IPt(pos[1] - pan_start[1],
                                               pos[2] - pan_start[2]),
                                           RDiv(I2R(1), zoom)))]
                    ELSE scene[j]]
    /\ UNCHANGED <<decodable, grabber, zoom, vw, vh, is_panning, space_pressed,
                   revision, mainVars>>

\* mouseMoveEvent while panning: the scroll bars move by the pointer delta; a
\* scroll bar whose value changes emits valueChanged -> schedule_lod_update
CanvasMovePan(pos) ==
    /\ is_panning
    /\ hval' = hval - (pos[1] - pan_start[1])
    /\ vval' = vval - (pos[2] - pan_start[2])
    /\ pan_start' = pos
    /\ IF hval' # hval \/ vval' # vval
       THEN schedule_lod_update
       ELSE UNCHANGED timerVars
    /\ UNCHANGED <<itemVars, zoom, vw, vh, is_panning, space_pressed, revision, mainVars>>

\* mouseReleaseEvent while panning
CanvasReleasePan ==
    /\ is_panning
    /\ is_panning' = FALSE
    /\ UNCHANGED <<itemVars, viewVars, pan_start, space_pressed, timerVars, revision, mainVars>>

\* mutant: releasing the space key ends the pan
KeySpace_EndsPan(down) ==
    /\ space_pressed' = down
    /\ is_panning' = (is_panning /\ down)
    /\ UNCHANGED <<itemVars, viewVars, pan_start, timerVars, revision, mainVars>>

\* keyPressEvent / keyReleaseEvent of the space key
KeySpace(down) ==
    /\ space_pressed' = down
    /\ UNCHANGED <<itemVars, viewVars, is_panning, pan_start, timerVars, revision, mainVars>>

\* wheelEvent (Win revision): scale the view by 1.1 or 0.9 about the mouse, then
\* schedule_lod_update
Wheel(up, m) ==
    /\ revision = "win"
    /\ zoom' = Quantize(RMul(zoom, ZoomFactor(up)))
    /\ hval' = AnchorScroll(hval, m[1], ZoomFactor(up))
    /\ vval' = AnchorScroll(vval, m[2], ZoomFactor(up))
    /\ schedule_lod_update
    /\ UNCHANGED <<itemVars, vw, vh, panVars, revision, mainVars>>

\* The viewport is resized.  OverviewCanvas has no resizeEvent and connects
\* nothing to it; QGraphicsView re-centres the view, which moves a scroll bar
\* (and so emits valueChanged) for some size changes and not for others: both
\* outcomes are taken.
ResizeViewport(size, moved) ==
    /\ revision = "win"
    /\ size # <<vw, vh>>
    /\ vw' = size[1] /\ vh' = size[2]
    /\ hval' = IF moved THEN hval - 1 ELSE hval
    /\ IF hval' # hval
       THEN schedule_lod_update
       ELSE UNCHANGED timerVars
    /\ UNCHANGED <<itemVars, zoom, vval, panVars, revision, mainVars>>

\* lod_timer.timeout -> update_lod
LodTimeout ==
    /\ lod_active /\ lod_remaining = 0
    /\ lod_active' = FALSE
    /\ lod_remaining' = 0
    /\ scene' = UpdateLodScene(scene, ViewRect, zoom)
    /\ UNCHANGED <<decodable, grabber, viewVars, panVars, revision, mainVars>>

\* Time passes; a pending timer fires when it is due, not later.
Tick(dt) ==
    /\ dt > 0
    /\ lod_active => dt <= lod_remaining
    /\ lod_remaining' = IF lod_active THEN lod_remaining - dt ELSE lod_remaining
    /\ UNCHANGED <<itemVars, viewVars, panVars, lod_active, revision, mainVars>>

\* The file system: an image file is removed or damaged, or comes back.
FileChange(f) ==
    /\ decodable' = IF f \in decodable THEN decodable \ {f} ELSE decodable \cup {f}
    /\ UNCHANGED <<scene, grabber, viewVars, panVars, timerVars, revision, mainVars>>

\* hoverMoveEvent of item i: the pointer, no button held, is at item position pos
ItemHover(i, pos) ==
    /\ grabber = 0 /\ ~is_panning
    /\ scene' = [scene EXCEPT ![i] = hoverMoveEvent(scene[i], pos, zoom)]
    /\ UNCHANGED <<decodable, grabber, viewVars, panVars, timerVars, revision, mainVars>>

\* A left-button press over item i that the canvas does not take for a pan
\* reaches RefItem.mousePressEvent (Win revision).  With _resize_corner set the
\* item starts a resize and accepts the event; otherwise the base class selects
\* the item (clearing the selection if the item was not part of it) and grabs it
\* for a move.
ItemPress(i, scene_pos) ==
    /\ revision = "win"
    /\ grabber = 0 /\ ~is_panning /\ ~space_pressed
    /\ scene' =
          IF scene[i].resize_corner # "none"
          THEN [scene EXCEPT ![i] = PressResize(scene, i, scene_pos)]
          ELSE IF scene[i].selected THEN scene
               ELSE [j \in DOMAIN scene |-> [scene[j] EXCEPT !.selected = (j = i)]]
    /\ grabber' = i
    /\ UNCHANGED <<decodable, viewVars, panVars, timerVars, revision, mainVars>>

\* mouseMoveEvent of the grabbed item while it is resizing
ItemMoveResize(i, mouse_pos) ==
    /\ revision = "win"
    /\ grabber = i /\ scene[i].is_resizing /\ ~is_panning
    /\ scene' = MoveResize(scene, i, mouse_pos)
    /\ UNCHANGED <<decodable, grabber, viewVars, panVars, timerVars, revision, mainVars>>

\* mouseMoveEvent of the grabbed item otherwise: the base class moves every
\* selected item by the pointer delta
ItemMoveDrag(i, delta) ==
    /\ grabber = i /\ ~scene[i].is_resizing /\ ~is_panning
    /\ scene' = [j \in DOMAIN scene |->
                    IF scene[j].selected
                    THEN [scene[j] EXCEPT !.pos = PAdd(@, delta)]
                    ELSE scene[j]]
    /\ UNCHANGED <<decodable, grabber, viewVars, panVars, timerVars, revision, mainVars>>

\* mouseReleaseEvent of the grabbed item
ItemRelease(i) ==
    /\ grabber = i /\ ~is_panning
    /\ scene' = [scene EXCEPT ![i].is_resizing = FALSE]
    /\ grabber' = 0
    /\ UNCHANGED <<decodable, viewVars, panVars, timerVars, revision, mainVars>>

\* Rubber-band drag over the canvas, or Ctrl+click: the selection becomes S.
SetSelection(S) ==
    /\ grabber = 0 /\ ~is_panning
    /\ scene' = [j \in DOMAIN scene |-> [scene[j] EXCEPT !.selected = (j \in S)]]
    /\ UNCHANGED <<decodable, grabber, viewVars, panVars, timerVars, revision, mainVars>>

-----------------------------------------------------------------------------
(* The rectangle packer behind organize_items: rectpack's newPacker() with  *)
(* its defaults (offline mode, one bin, MaxRectsBssf, rectangles sorted by  *)
(* area, rotation allowed).  Packer rectangles are integer records          *)
(* [x, y, w, h]; a placed rectangle also carries rid, the index of its item.*)

PRect(x, y, w, h) == [x |-> x, y |-> y, w |-> w, h |-> h]
Min2(a, b) == IF a < b THEN a ELSE b
Max2(a, b) == IF a > b THEN a ELSE b

\* Rectangle.intersects (edges excluded) and Rectangle.contains
PIntersects(a, b) ==
    /\ a.x < b.x + b.w /\ b.x < a.x + a.w
    /\ a.y < b.y + b.h /\ b.y < a.y + a.h
PContains(a, b) ==
    /\ b.x >= a.x /\ b.y >= a.y
    /\ b.x + b.w <= a.x + a.w /\ b.y + b.h <= a.y + a.h

\* concatenation of the sequences f(lo), ..., f(hi), by halving
RECURSIVE Concat(_, _, _)
Concat(f, lo, hi) ==
    IF lo > hi THEN <<>>
    ELSE IF lo = hi THEN f[lo]
    ELSE LET mid == (lo + hi) \div 2
         IN  Concat(f, lo, mid) \o Concat(f, mid + 1, hi)

\* F(x), with x worked out to a value before F is entered
Then(x, F(_)) == CHOOSE y \in {F(v) : v \in {x}} : TRUE

\* the elements of s that satisfy keep, in order
Filter(s, keep(_)) ==
    Concat([k \in DOMAIN s |-> IF keep(s[k]) THEN <<s[k]>> ELSE <<>>], 1, Len(s))

\* the sequence <<e(1), ..., e(n)>>, written out element by element
MapSeq(n, e(_)) == Concat([k \in 1..n |-> <<e(k)>>], 1, n)

\* SORT_AREA: sorted(rects, reverse=True, key=area); equal areas keep their order
SortArea(rects) ==
    LET n == Len(rects)
        area(k) == rects[k].w * rects[k].h
        ranked(areas) ==
            LET before(k) == Cardinality({j \in 1..n : areas[j] > areas[k]})
                             + Cardinality({j \in 1..k : areas[j] = areas[k]})
                ordered(rank) ==
                    LET at(p) == rects[CHOOSE k \in 1..n : rank[k] = p]
                    IN  MapSeq(n, at)
            IN  Then(MapSeq(n, before), ordered)
    IN  Then(MapSeq(n, area), ranked)

\* newPacker(): rotation=True
PackerRotation == TRUE

\* MaxRectsBssf._rect_fitness: the shorter leftover side, -1 where the code has None
RectFitness(m, w, h) ==
    IF w > m.w \/ h > m.h THEN -1 ELSE Min2(m.w - w, m.h - h)

\* MaxRects._select_position: the upright fits over all free rectangles, then the
\* turned ones; the first of least fitness wins.  <<>> where the code has None.
SelectPosition(max_rects, w, h) ==
    LET n == Len(max_rects)
        fitn == [k \in 1..n |->
                   IF RectFitness(max_rects[k], w, h) >= 0
                   THEN <<[fit |-> RectFitness(max_rects[k], w, h), w |-> w, h |-> h,
                           m |-> k]>>
                   ELSE <<>>]
        fitr == [k \in 1..n |->
                   IF PackerRotation /\ RectFitness(max_rects[k], h, w) >= 0
                   THEN <<[fit |-> RectFitness(max_rects[k], h, w), w |-> h, h |-> w,
                           m |-> k]>>
                   ELSE <<>>]
        least(fit) ==
            IF fit = <<>> THEN <<>>
            ELSE LET at(best) ==
                         <<PRect(max_rects[fit[best].m].x, max_rects[fit[best].m].y,
                                 fit[best].w, fit[best].h)>>
                 IN  Then(CHOOSE k \in DOMAIN fit :
                              /\ \A j \in DOMAIN fit : fit[k].fit <= fit[j].fit
                              /\ \A j \in 1..(k - 1) : fit[j].fit > fit[k].fit,
                          at)
    IN  Then(Concat(fitn, 1, n) \o Concat(fitr, 1, n), least)

\* MaxRects._generate_splits: what is left of free rectangle m around r
GenerateSplits(m, r) ==
    (IF r.x > m.x THEN <<PRect(m.x, m.y, r.x - m.x, m.h)>> ELSE <<>>)
    \o (IF r.x + r.w < m.x + m.w
        THEN <<PRect(r.x + r.w, m.y, m.x + m.w - (r.x + r.w), m.h)>> ELSE <<>>)
    \o (IF r.y + r.h < m.y + m.h
        THEN <<PRect(m.x, r.y + r.h, m.w, m.y + m.h - (r.y + r.h))>> ELSE <<>>)
    \o (IF r.y > m.y THEN <<PRect(m.x, m.y, m.w, r.y - m.y)>> ELSE <<>>)

\* MaxRects._split
Split(max_rects, rect) ==
    Concat([k \in DOMAIN max_rects |->
               IF PIntersects(max_rects[k], rect)
               THEN GenerateSplits(max_rects[k], rect)
               ELSE <<max_rects[k]>>], 1, Len(max_rects))

\* MaxRects._remove_duplicates: of every pair, a rectangle contained in the other
\* is dropped (by value: of two equal rectangles both go)
RemoveDuplicates(max_rects) ==
    LET n == Len(max_rects)
        outside(contained) ==
            LET kept(m) == m \notin contained
            IN  Filter(max_rects, kept)
    IN  Then({max_rects[j] : j \in {j \in 1..n :
                 \E i \in 1..n :
                     /\ i # j
                     /\ PContains(max_rects[i], max_rects[j])
                     /\ (i < j \/ ~PContains(max_rects[j], max_rects[i]))}},
             outside)


\* MaxRects._fits_surface: the rectangle fits the empty bin, turned if need be
FitsSurface(bw, bh, w, h) ==
    LET turn == PackerRotation /\ (w > bw \/ h > bh)
        w1 == IF turn THEN h ELSE w
        h1 == IF turn THEN w ELSE h
    IN  w1 <= bw /\ h1 <= bh

\* The one bin while packing: its free rectangles and the rectangles placed.
\* The bin is opened by the first rectangle that fits its surface.
EmptyBin == [open |-> FALSE, max_rects |-> <<>>, rectangles |-> <<>>]

\* PackerBBF.add_rect for a packer with a single bin bw x bh (MaxRects.add_rect
\* inside): a rectangle that finds no position is left out
AddRect(bin, bw, bh, r) ==
    LET place(opened) ==
            LET put(sel) ==
                    IF sel = <<>> THEN opened
                    ELSE LET grow(free) ==
                                 [opened EXCEPT
                                    !.max_rects = free,
                                    !.rectangles =
                                        Append(@, [x |-> sel[1].x, y |-> sel[1].y,
                                                   w |-> sel[1].w, h |-> sel[1].h,
                                                   rid |-> r.rid])]
                         IN  Then(Then(Split(opened.max_rects, sel[1]),
                                       RemoveDuplicates), grow)
            IN  Then(IF opened.open
                     THEN SelectPosition(opened.max_rects, r.w, r.h) ELSE <<>>, put)
    IN  Then(IF bin.open THEN bin
             ELSE IF FitsSurface(bw, bh, r.w, r.h)
                  THEN [open |-> TRUE, max_rects |-> <<PRect(0, 0, bw, bh)>>,
                        rectangles |-> <<>>]
                  ELSE bin, place)

\* the rectangles rects[lo..hi] added in order, by halving
RECURSIVE AddRects(_, _, _, _, _, _)
AddRects(bin, bw, bh, rects, lo, hi) ==
    IF lo > hi THEN bin
    ELSE IF lo = hi THEN AddRect(bin, bw, bh, rects[lo])
    ELSE LET mid == (lo + hi) \div 2
             rest(left) == AddRects(left, bw, bh, rects, mid + 1, hi)
         IN  Then(AddRects(bin, bw, bh, rects, lo, mid), rest)

\* packer.add_bin(bw, bh); add_rect for every rectangle; packer.pack(): the
\* rectangles placed, in the order the packer yields them
Pack(bw, bh, rects) ==
    LET add(sorted) == AddRects(EmptyBin, bw, bh, sorted, 1, Len(sorted)).rectangles
    IN  Then(SortArea(rects), add)

TEXT_PADDING == 40
BIN_SLACK == 2000

\* scene.items(): the items in descending stacking order (the last added first)
SceneItems(sc) == [k \in 1..Len(sc) |-> Len(sc) + 1 - k]

\* the (w, h + text_padding, item) triples organize_items hands to the packer
PackRects(sc) ==
    LET items == SceneItems(sc)
        triple(k) ==
            LET sized(r) == [w |-> Max2(1, RCeil(r.w)),
                             h |-> Max2(1, RCeil(r.h)) + TEXT_PADDING,
                             rid |-> items[k]]
            IN  Then(SceneBoundingRect(sc[items[k]]), sized)
    IN  MapSeq(Len(sc), triple)

RECURSIVE SumArea(_, _, _)
SumArea(rects, lo, hi) ==
    IF lo > hi THEN 0
    ELSE IF lo = hi THEN rects[lo].w * rects[lo].h
    ELSE LET mid == (lo + hi) \div 2
         IN  SumArea(rects, lo, mid) + SumArea(rects, mid + 1, hi)

\* ceil(sqrt(n * 1.2)) for an integer n >= 0
CeilSqrt12(n) ==
    LET up(s) == IF 5 * s * s >= 6 * n THEN s ELSE s + 1
    IN  Then(Isqrt((n * 6) \div 5), up)

BinWidth(rects) ==
    LET total_area == SumArea(rects, 1, Len(rects))
        max_w == CHOOSE w \in {rects[k].w : k \in DOMAIN rects} :
                    \A k \in DOMAIN rects : rects[k].w <= w
    IN  Max2(CeilSqrt12(total_area), max_w)

\* int(total_area / bin_width * 2) + 2000
BinHeight(rects) ==
    (2 * SumArea(rects, 1, Len(rects))) \div BinWidth(rects) + BIN_SLACK

\* mutant: the item's position, not its footprint's top-left corner, is put at the
\* target
organize_items_FromScratch(sc) ==
    IF Len(sc) = 0 THEN sc
    ELSE LET arrange(rects) ==
               LET wide(bin_width) ==
                     LET high(bin_height) ==
                           LET set(placed) ==
                                 LET start_x == R(-bin_width, 2)
                                     start_y == R(-bin_height, 2)
                                     move(it, rect) ==
                                         [it EXCEPT !.pos =
                                            <<RAdd(start_x, I2R(rect.x)),
                                              RAdd(start_y, I2R(rect.y + TEXT_PADDING))>>]
                                     moved(j) ==
                                         IF \E k \in DOMAIN placed : placed[k].rid = j
                                         THEN move(sc[j],
                                                   placed[CHOOSE k \in DOMAIN placed :
                                                              placed[k].rid = j])
                                         ELSE sc[j]
                                 IN  MapSeq(Len(sc), moved)
                           IN  Then(Pack(bin_width, bin_height, rects), set)
                     IN  Then(BinHeight(rects), high)
               IN  Then(BinWidth(rects), wide)
         IN  Then(PackRects(sc), arrange)

\* organize_items: the scene after the arrangement.  Every rectangle the packer
\* placed moves its item so that the item's footprint has its top-left corner at
\* (start_x + rect.x, start_y + rect.y + text_padding); the other items stay.
organize_items(sc) ==
    IF Len(sc) = 0 THEN sc
    ELSE LET arrange(rects) ==
               LET wide(bin_width) ==
                     LET high(bin_height) ==
                           LET set(placed) ==
                                 LET start_x == R(-bin_width, 2)
                                     start_y == R(-bin_height, 2)
                                     move(it, rect) ==
                                         [it EXCEPT !.pos =
                                            PAdd(it.pos,
                                                 PSub(<<RAdd(start_x, I2R(rect.x)),
                                                        RAdd(start_y,
                                                             I2R(rect.y + TEXT_PADDING))>>,
                                                      TopLeft(SceneBoundingRect(it))))]
                                     moved(j) ==
                                         IF \E k \in DOMAIN placed : placed[k].rid = j
                                         THEN move(sc[j],
                                                   placed[CHOOSE k \in DOMAIN placed :
                                                              placed[k].rid = j])
                                         ELSE sc[j]
                                 IN  MapSeq(Len(sc), moved)
                           IN  Then(Pack(bin_width, bin_height, rects), set)
                     IN  Then(BinHeight(rects), high)
               IN  Then(BinWidth(rects), wide)
         IN  Then(PackRects(sc), arrange)

\* scene.itemsBoundingRect(): the union of the footprints of items lo..hi
RECURSIVE UnitedRange(_, _, _)
UnitedRange(sc, lo, hi) ==
    IF lo = hi THEN SceneBoundingRect(sc[lo])
    ELSE LET mid == (lo + hi) \div 2
             with(a) == LET join(b) == United(a, b)
                        IN  Then(UnitedRange(sc, mid + 1, hi), join)
         IN  Then(UnitedRange(sc, lo, mid), with)

FIT_MARGIN == 2

\* int(x) of a float: rounding toward zero
RTrunc(a) == IF a[1] < 0 THEN -((-a[1]) \div a[2]) ELSE a[1] \div a[2]

\* fitInView(scene.itemsBoundingRect(), Qt.KeepAspectRatio): the scale that shows
\* the rectangle inside the viewport less a margin, and the scroll-bar values that
\* centre it (centerOn).  Nothing changes for an empty scene or a viewport no
\* larger than the margins.
FitInView(sc) ==
    IF Len(sc) = 0 \/ vw <= 2 * FIT_MARGIN \/ vh <= 2 * FIT_MARGIN
    THEN [zoom |-> zoom, hval |-> hval, vval |-> vval]
    ELSE LET fit(rect) ==
                 LET centred(ratio) ==
                         [zoom |-> ratio,
                          hval |-> RTrunc(RSub(RMul(RAdd(rect.x, RDiv(rect.w, I2R(2))),
                                                    ratio), R(vw, 2))),
                          vval |-> RTrunc(RSub(RMul(RAdd(rect.y, RDiv(rect.h, I2R(2))),
                                                    ratio), R(vh, 2)))]
                 IN  Then(RMin(RDiv(I2R(vw - 2 * FIT_MARGIN), rect.w),
                               RDiv(I2R(vh - 2 * FIT_MARGIN), rect.h)), centred)
         IN  Then(UnitedRange(sc, 1, Len(sc)), fit)

\* auto_arrange on the scene sc: organize_items, then fitInView.  A scroll bar
\* that ends at another value has emitted valueChanged -> schedule_lod_update;
\* when only the scale changed, the scroll bars may or may not have moved on the
\* way (emitted).
ArrangeAndFit(sc) ==
    \E arranged \in {organize_items(sc)} : \E fit \in {FitInView(arranged)} :
        /\ scene' = arranged
        /\ zoom' = fit.zoom /\ hval' = fit.hval /\ vval' = fit.vval
        /\ \E emitted \in BOOLEAN :
              IF hval' # hval \/ vval' # vval \/ (emitted /\ zoom' # zoom)
              THEN schedule_lod_update
              ELSE UNCHANGED timerVars

\* OverviewPage.auto_arrange (the toolbar button)
AutoArrange ==
    /\ revision = "win"
    /\ grabber = 0
    /\ ArrangeAndFit(scene)
    /\ UNCHANGED <<decodable, grabber, vw, vh, panVars, revision, mainVars>>

MAX_ITEMS == 300
MAX_IMAGE_WIDTH == 1600
GRID_SIZE == 40

GRID_LOD_MIN == R(1, 5)
GRID_BUDGET == 10000

\* mutant: the spacing is never doubled
drawBackground_NoBudget(rect, lod, size) ==
    IF RLt(lod, GRID_LOD_MIN) \/ size <= 0
    THEN [grid |-> FALSE, step |-> 0]
    ELSE [grid |-> TRUE, step |-> size]

\* drawBackground(painter, rect) with levelOfDetailFromTransform = lod and
\* config["grid_size"] = size: whether the grid points are drawn and the step
\* between them.  (width / size) * (height / size) > 10000 is compared exactly,
\* as width * height > 10000 * size * size.
drawBackground(rect, lod, size) ==
    IF RLt(lod, GRID_LOD_MIN) THEN [grid |-> FALSE, step |-> 0]
    ELSE IF size > 0
    THEN LET width == RTrunc(rect.w)
             height == RTrunc(rect.h)
         IN  [grid |-> TRUE,
              step |-> IF width * height > GRID_BUDGET * size * size
                       THEN size * 2 ELSE size]
    ELSE [grid |-> FALSE, step |-> 0]

FolderNames == {"A", "B", "C"}

\* MainWindow.__init__: no file list, no current file, no results; no folder has
\* a review_results.json
NoReview ==
    /\ files = <<>>
    /\ current_file = 0
    /\ results = {}
    /\ current_row = -1
    /\ sidecar = [name \in FolderNames |-> {}]

\* MainWindow as the canvas specifications take it: a folder is open and the
\* settings are the defaults ("enable_overview": True, "max_image_width": 1600,
\* "grid_size": 40)
MainDefaults ==
    /\ current_folder = "A"
    /\ enable_overview = TRUE
    /\ max_image_width = MAX_IMAGE_WIDTH
    /\ grid_size = GRID_SIZE
    /\ NoReview

\* pixmap.scaledToWidth(max_w, Qt.SmoothTransformation) of a w x h pixmap: the
\* size of the result (Qt takes int(h * max_w / w + 0.9999) for the height)
ScaledToWidth(w, h, max_w) ==
    <<RTrunc(RAdd(R(w * max_w, w), R(9999, 10000))),
      RTrunc(RAdd(R(h * max_w, w), R(9999, 10000)))>>

\* mutant: the pixmap is kept as it is
ThumbnailSize_Unscaled(w, h) == <<w, h>>

\* the thumbnail of a w x h pixmap
ThumbnailSize(w, h) ==
    IF max_image_width > 0 /\ w > max_image_width
    THEN ScaledToWidth(w, h, max_image_width)
    ELSE <<w, h>>

\* the legacy revision scales a pixmap wider than 1000 down to 1000
LEGACY_MAX_WIDTH == 1000
LegacyThumbnailSize(w, h) ==
    IF w > LEGACY_MAX_WIDTH THEN ScaledToWidth(w, h, LEGACY_MAX_WIDTH) ELSE <<w, h>>

\* count += 1; if count > 300: break
LoadStops(count) == count > MAX_ITEMS

\* mutant: a file that does not decode counts toward the cap
LoadFile_FailureCounts(st, f, pos) ==
    IF st.stopped THEN st
    ELSE IF ~Decodes(f.id)
         THEN [st EXCEPT !.count = @ + 1, !.stopped = LoadStops(st.count + 1)]
         ELSE [items |-> Append(st.items,
                                NewItem(f.id, ThumbnailSize(f.w, f.h)[1],
                                        ThumbnailSize(f.w, f.h)[2], pos)),
               count |-> st.count + 1,
               stopped |-> LoadStops(st.count + 1)]

\* One turn of the loop of load_images for file f (a record [id, w, h]) landing
\* at the random position pos.  st is [items, count, stopped].
LoadFile(st, f, pos) ==
    IF st.stopped \/ ~Decodes(f.id) THEN st
    ELSE LET add(size) ==
                 [items |-> Append(st.items, NewItem(f.id, size[1], size[2], pos)),
                  count |-> st.count + 1,
                  stopped |-> LoadStops(st.count + 1)]
         IN  Then(ThumbnailSize(f.w, f.h), add)

\* the turns for files[lo..hi], by halving; spot[k] is the position drawn for
\* the k-th file
RECURSIVE LoadFiles(_, _, _, _, _)
LoadFiles(st, listing, spot, lo, hi) ==
    IF lo > hi THEN st
    ELSE IF lo = hi THEN LoadFile(st, listing[lo], spot[lo])
    ELSE LET mid == (lo + hi) \div 2
             rest(left) == LoadFiles(left, listing, spot, mid + 1, hi)
         IN  Then(LoadFiles(st, listing, spot, lo, mid), rest)

\* OverviewPage.load_images(folder_path, files): the scene is cleared, one item
\* is made for every file that decodes until the loop breaks, then auto_arrange
load_images(listing, spot) ==
    /\ revision = "win"
    /\ \E st \in {LoadFiles([items |-> <<>>, count |-> 0, stopped |-> FALSE],
                            listing, spot, 1, Len(listing))} :
          ArrangeAndFit(st.items)
    /\ grabber' = 0
    /\ UNCHANGED <<decodable, vw, vh, panVars, revision>>

\* load_images as the canvas specifications take it, MainWindow left alone
LoadImages(listing, spot) ==
    /\ load_images(listing, spot)
    /\ UNCHANGED mainVars

\* load_results: review_results.json of the folder, {} if there is none
load_results(disk, folder_path) == disk[folder_path]

\* update_stats / update_stats_status: total, passed, failed, invalid and
\* unreviewed as handed to the statistics view and the status bar
update_stats(file_list, res) ==
    LET current_files == {file_list[k] : k \in DOMAIN file_list}
        valid_results == {r \in res : r[1] \in current_files}
        count(v) == Cardinality({r \in valid_results : r[2] = v})
    IN  [total |-> Len(file_list),
         passed |-> count("pass"),
         failed |-> count("fail"),
         invalid |-> count("invalid"),
         unreviewed |-> Len(file_list) - Cardinality(valid_results)]

\* MainWindow.load_folder(folder_path), listed the pictures listed in the folder:
\* the folder becomes the current one with its file list and its stored results,
\* the side bar gets a new list with no current row, current_file stays, and the
\* overview page loads the folder only when the "enable_overview" setting is on
load_folder(folder_path, listed, spot) ==
    /\ current_folder' = folder_path
    /\ files' = [k \in DOMAIN listed |-> listed[k].id]
    /\ results' = load_results(sidecar, folder_path)
    /\ current_row' = -1
    /\ IF enable_overview
       THEN load_images(listed, spot)
       ELSE UNCHANGED <<itemVars, viewVars, panVars, timerVars, revision>>
    /\ UNCHANGED <<enable_overview, max_image_width, grid_size, current_file, sidecar>>

\* MainWindow.close_folder: no folder is current and the overview scene is
\* cleared
close_folder ==
    /\ current_folder' = ""
    /\ files' = <<>>
    /\ results' = {}
    /\ current_row' = -1
    /\ scene' = <<>>
    /\ grabber' = 0
    /\ UNCHANGED <<decodable, viewVars, panVars, timerVars, revision,
                   enable_overview, max_image_width, grid_size, current_file, sidecar>>

\* MainWindow.refresh_folder with the folder listing listed: nothing but a
\* notification without a folder; else the list and the results are read again,
\* the side bar gets a new list, and load_file shows the file shown before if it
\* is still listed, the first file otherwise
refresh_folder(listed) ==
    /\ IF current_folder = ""
       THEN UNCHANGED reviewVars
       ELSE /\ files' = [k \in DOMAIN listed |-> listed[k].id]
            /\ results' = load_results(sidecar, current_folder)
            /\ current_row' = -1
            /\ current_file' =
                  IF current_file # 0 /\ \E k \in DOMAIN listed : listed[k].id = current_file
                  THEN current_file
                  ELSE IF Len(listed) > 0 THEN listed[1].id ELSE current_file
            /\ UNCHANGED sidecar
    /\ UNCHANGED <<itemVars, viewVars, panVars, timerVars, revision, current_folder,
                   enable_overview, max_image_width, grid_size>>

\* the row of the side bar's list becomes current: on_file_change emits
\* fileSelected, load_file makes that file the current one
load_file(row) ==
    /\ current_folder # ""
    /\ row \in 0..(Len(files) - 1) /\ row # current_row
    /\ current_row' = row
    /\ current_file' = files[row + 1]
    /\ UNCHANGED <<itemVars, viewVars, panVars, timerVars, revision, current_folder,
                   enable_overview, max_image_width, grid_size, files, results,
                   sidecar>>

\* MainWindow.handle_decision(decision): nothing without a current file; else
\* the decision is stored under current_file, save_results writes the results to
\* the open folder's review_results.json (nothing with no folder open), and the
\* side bar advances to the next row, if there is one, which makes that file
\* the current one.  With no folder open the side bar's list is gone and the
\* handler ends right after storing the decision.
handle_decision(decision) ==
    /\ IF current_file = 0
       THEN UNCHANGED reviewVars
       ELSE /\ results' = {r \in results : r[1] # current_file}
                              \cup {<<current_file, decision>>}
            /\ sidecar' = IF current_folder = "" THEN sidecar
                          ELSE [sidecar EXCEPT ![current_folder] = results']
            /\ IF current_folder # "" /\ current_row < Len(files) - 1
               THEN /\ current_row' = current_row + 1
                    /\ current_file' = files[current_row + 2]
               ELSE UNCHANGED <<current_row, current_file>>
            /\ UNCHANGED files
    /\ UNCHANGED <<itemVars, viewVars, panVars, timerVars, revision, current_folder,
                   enable_overview, max_image_width, grid_size>>

\* MainWindow.open_settings: the dialog stores the settings when it closes, then
\* apply_config shows or hides the overview button and hands the configuration
\* to the overview page; the canvas is not touched
open_settings(enabled, max_w, grid) ==
    /\ enable_overview' = enabled
    /\ max_image_width' = max_w
    /\ grid_size' = grid
    /\ UNCHANGED <<itemVars, viewVars, panVars, timerVars, revision, current_folder,
                   reviewVars>>

\* wheelEvent of the legacy revision (src/overview.py): with Ctrl held every
\* selected item is scaled by the notch factor; without it the view is scaled
\* about the mouse.  The legacy canvas has no level-of-detail timer.
LegacyWheel(ctrl, up, m) ==
    /\ revision = "legacy"
    /\ IF ctrl
       THEN /\ scene' = [j \in DOMAIN scene |->
                           IF scene[j].selected
                           THEN [scene[j] EXCEPT
                                   !.scale = Quantize(RMul(@, ZoomFactor(up)))]
                           ELSE scene[j]]
            /\ UNCHANGED <<zoom, hval, vval>>
       ELSE /\ zoom' = Quantize(RMul(zoom, ZoomFactor(up)))
            /\ hval' = AnchorScroll(hval, m[1], ZoomFactor(up))
            /\ vval' = AnchorScroll(vval, m[2], ZoomFactor(up))
            /\ UNCHANGED scene
    /\ UNCHANGED <<decodable, grabber, vw, vh, panVars, timerVars, revision, mainVars>>

-----------------------------------------------------------------------------
(* Bounds of the model.                                                    *)

MaxScroll == 160     \* scroll-bar values stay within -MaxScroll .. MaxScroll
MaxWheel == 1        \* wheel notches per behaviour

ScrollInBounds == Abs(hval') <= MaxScroll /\ Abs(vval') <= MaxScroll
Files(sc) == {sc[i].file : i \in DOMAIN sc}

-----------------------------------------------------------------------------
(* Spec: items on the canvas, the viewport and the Streamer.               *)
(* hist.pass    the last step was a Streamer pass                          *)
(* hist.failed  items whose high-resolution decode failed in that pass     *)
(* hist.prior   the items that were hot when that pass began               *)
(* hist.wheels  wheel notches so far                                       *)

StreamThumb == <<100, 100>>
StreamSpots == <<IPt(0, 0), IPt(250, 0), IPt(150, 0)>>
StreamLayouts == {<<>>, <<1>>, <<2>>, <<3>>, <<1, 2>>, <<2, 2>>, <<3, 1>>}
StreamScenes ==
    {[i \in DOMAIN l |-> NewItem(i, StreamThumb[1], StreamThumb[2], StreamSpots[l[i]])] :
        l \in StreamLayouts}
InitZooms == {<<1, 1>>, <<5, 9>>, <<1, 2>>}
StreamPanPoints == {<<0, 0>>, <<60, 0>>}
ViewCentre == <<100, 100>>

Seen(h) == [h EXCEPT !.pass = FALSE]

\* the items update_lod tried to load and could not
DecodeFailures ==
    {i \in DOMAIN scene :
        /\ ShouldLoadHighRes(zoom)
        /\ Intersects(SceneBoundingRect(scene[i]), ViewRect)
        /\ ~scene[i].is_high_res
        /\ ~Decodes(scene[i].file)}

Init ==
    /\ scene \in StreamScenes
    /\ decodable = Files(scene)
    /\ grabber = 0
    /\ zoom \in InitZooms
    /\ hval = -100 /\ vval = -100
    /\ vw = 200 /\ vh = 200
    /\ is_panning = TRUE /\ pan_start = <<0, 0>> /\ space_pressed = FALSE
    /\ lod_active = FALSE /\ lod_remaining = 0
    /\ revision = "win"
    /\ MainDefaults
    /\ hist = [pass |-> FALSE, failed |-> {}, prior |-> {}, wheels |-> 0]

StreamPan ==
    \E p \in StreamPanPoints :
        CanvasMovePan(p) /\ ScrollInBounds /\ hist' = Seen(hist)

StreamWheel ==
    \E up \in BOOLEAN :
        /\ hist.wheels < MaxWheel
        /\ Wheel(up, ViewCentre) /\ ScrollInBounds
        /\ hist' = [Seen(hist) EXCEPT !.wheels = @ + 1]

StreamPass ==
    /\ LodTimeout
    /\ hist' = [hist EXCEPT !.pass = TRUE, !.failed = DecodeFailures,
                            !.prior = {i \in DOMAIN scene : scene[i].is_high_res}]

StreamWait ==
    /\ lod_active
    /\ Tick(lod_remaining)
    /\ hist' = Seen(hist)

StreamFile ==
    \E f \in Files(scene) : FileChange(f) /\ hist' = Seen(hist)

Next ==
    \/ StreamPan
    \/ StreamWheel
    \/ StreamPass
    \/ StreamWait
    \/ StreamFile

Spec == Init /\ [][Next]_vars

Hot(i) == scene[i].high_res_pixmap
Visible(i) == Intersects(SceneBoundingRect(scene[i]), ViewRect)

\* C1 as stated: after a Streamer pass run with zoom scale > 0.5, an item holds its
\* high-resolution bitmap exactly when its footprint intersects the visible rect.
C1_StreamingAsStated ==
    (hist.pass /\ RLt(<<1, 2>>, zoom)) =>
        \A i \in DOMAIN scene : Hot(i) <=> Visible(i)

\* C1 amended: after a Streamer pass run with zoom scale > 0.5, every item whose
\* footprint does not intersect the visible rect holds no high-resolution bitmap,
\* and every item whose footprint intersects it holds one unless its decode failed
\* in that pass (the item was cold and its file did not decode).
C1_StreamingUnlessDecodeFails ==
    (hist.pass /\ RLt(<<1, 2>>, zoom)) =>
        \A i \in DOMAIN scene : Hot(i) <=> (Visible(i) /\ i \notin hist.failed)

\* a pass at zoom > 0.5 that loaded one item and evicted another
C1_Witness ==
    /\ hist.pass /\ RLt(<<1, 2>>, zoom)
    /\ \E i \in DOMAIN scene : Hot(i) /\ i \notin hist.prior
    /\ \E j \in DOMAIN scene : ~Hot(j) /\ j \in hist.prior

\* C2: after a Streamer pass run with zoom scale <= 0.5 (0.5 included) no item
\* holds a high-resolution bitmap, wherever the items are and whatever was hot.
C2_ZoomedOutAllCold ==
    (hist.pass /\ RLe(zoom, <<1, 2>>)) =>
        \A i \in DOMAIN scene : ~Hot(i)

\* a pass at exactly 0.5 over a visible item that was hot when the pass began
C2_Witness ==
    /\ hist.pass /\ zoom = <<1, 2>>
    /\ \E i \in hist.prior : Visible(i) /\ ~Hot(i)

\* C13: load_high_res on an item that holds its high-resolution bitmap and
\* unload_high_res on an item that holds none change nothing, and either one
\* called twice in a row leaves the item as one call does.
C13_LoadUnloadIdempotent ==
    \A i \in DOMAIN scene :
        /\ scene[i].is_high_res => load_high_res(scene[i]) = scene[i]
        /\ ~scene[i].is_high_res => unload_high_res(scene[i]) = scene[i]
        /\ load_high_res(load_high_res(scene[i])) = load_high_res(scene[i])
        /\ unload_high_res(unload_high_res(scene[i])) = unload_high_res(scene[i])

\* a pass has called load_high_res on a visible item that was hot already and
\* whose file has stopped decoding since, beside a cold item
C13_Witness ==
    /\ hist.pass /\ RLt(<<1, 2>>, zoom)
    /\ \E i \in hist.prior : Visible(i) /\ Hot(i) /\ ~Decodes(scene[i].file)
    /\ \E j \in DOMAIN scene : ~Hot(j)

\* C14: a pass in which the decode of some item failed has run to its end; every
\* such item is cold and still on its thumbnail, and every other item was loaded
\* or unloaded by the policy (hot exactly when its footprint meets the visible
\* rect; failures happen only at zoom > 0.5).
C14_DecodeFailureLeavesCold ==
    (hist.pass /\ hist.failed # {}) =>
        /\ ~lod_active
        /\ \A i \in hist.failed :
              ~scene[i].is_high_res /\ ~scene[i].high_res_pixmap
        /\ \A i \in DOMAIN scene \ hist.failed : Hot(i) <=> Visible(i)

\* a pass met a decode failure on its way and after it loaded a cold item
C14_Witness ==
    /\ hist.pass
    /\ \E j \in hist.failed : \E i \in DOMAIN scene \ hist.failed :
          i < j /\ Hot(i) /\ i \notin hist.prior

\* C25: in every state an item's is_high_res flag is true exactly when the item
\* holds a high-resolution bitmap.
C25_FlagMatchesBuffer ==
    \A i \in DOMAIN scene : scene[i].is_high_res <=> scene[i].high_res_pixmap

\* after a pass one item holds its bitmap with the flag up and the decode of
\* another has failed, leaving it without flag and bitmap
C25_Witness ==
    /\ hist.pass
    /\ \E i \in DOMAIN scene : scene[i].is_high_res /\ scene[i].high_res_pixmap
    /\ \E j \in hist.failed : ~scene[j].is_high_res /\ ~scene[j].high_res_pixmap

-----------------------------------------------------------------------------
(* SpecDebounce: the input events that move the viewport, the clock and    *)
(* the single-shot lod_timer.                                              *)
(* hist.burstLen     scheduling events (scroll-bar changes, wheel notches) *)
(*                   of the current burst; an event continues the burst    *)
(*                   when it arrives while the timer is still pending      *)
(* hist.burstPasses  Streamer passes run since the burst began             *)
(* hist.idle         milliseconds since the last scheduling event          *)
(* hist.onTime       the last pass ran exactly LOD_INTERVAL_MS after the   *)
(*                   last scheduling event                                 *)
(* hist.wheels       wheel notches so far                                  *)
(* hist.resizes      viewport resizes so far                               *)

MaxResize == 1       \* viewport resizes per behaviour
MaxBurst == 3        \* the burst counter saturates here
TickSteps == {50}
DebouncePanPoints == {<<0, 0>>, <<60, 0>>}
ViewportSizes == {<<200, 200>>, <<201, 200>>}

InitDebounce ==
    /\ scene = <<NewItem(1, StreamThumb[1], StreamThumb[2], IPt(0, 0))>>
    /\ decodable = {1}
    /\ grabber = 0
    /\ zoom = I2R(1)
    /\ hval = -100 /\ vval = -100
    /\ vw = 200 /\ vh = 200
    /\ is_panning = FALSE /\ pan_start = <<0, 0>> /\ space_pressed = FALSE
    /\ lod_active = FALSE /\ lod_remaining = 0
    /\ revision = "win"
    /\ MainDefaults
    /\ hist = [burstLen |-> 0, burstPasses |-> 0, idle |-> 0, onTime |-> TRUE,
               wheels |-> 0, resizes |-> 0]

\* a scroll bar changed value or the wheel turned
SchedulingEvent(wheel) == wheel \/ hval' # hval \/ vval' # vval

Observe(wheel, resize) ==
    hist' =
        IF SchedulingEvent(wheel)
        THEN [hist EXCEPT
                !.burstLen = IF lod_active THEN (IF @ < MaxBurst THEN @ + 1 ELSE @) ELSE 1,
                !.burstPasses = IF lod_active THEN @ ELSE 0,
                !.idle = 0,
                !.wheels = IF wheel THEN @ + 1 ELSE @,
                !.resizes = IF resize THEN @ + 1 ELSE @]
        ELSE [hist EXCEPT !.resizes = IF resize THEN @ + 1 ELSE @]

DebouncePress ==
    \E b \in {"left", "middle"}, p \in DebouncePanPoints :
        CanvasPressPan(b, p) /\ Observe(FALSE, FALSE)

DebounceMove ==
    \E p \in DebouncePanPoints :
        CanvasMovePan(p) /\ ScrollInBounds /\ Observe(FALSE, FALSE)

DebounceRelease == CanvasReleasePan /\ Observe(FALSE, FALSE)

DebounceSpace == \E d \in BOOLEAN : KeySpace(d) /\ Observe(FALSE, FALSE)

DebounceWheel ==
    \E up \in BOOLEAN :
        /\ hist.wheels < MaxWheel
        /\ Wheel(up, ViewCentre) /\ ScrollInBounds
        /\ Observe(TRUE, FALSE)

DebounceResize ==
    \E sz \in ViewportSizes, mv \in BOOLEAN :
        /\ hist.resizes < MaxResize
        /\ ResizeViewport(sz, mv) /\ ScrollInBounds
        /\ Observe(FALSE, TRUE)

DebouncePass ==
    /\ LodTimeout
    /\ hist' = [hist EXCEPT !.burstPasses = IF @ < 2 THEN @ + 1 ELSE @,
                            !.onTime = (hist.idle = LOD_INTERVAL_MS)]

DebounceTick ==
    \E dt \in TickSteps \cup {lod_remaining} :
        /\ Tick(dt)
        /\ hist' = [hist EXCEPT !.idle = IF @ + dt > 2 * LOD_INTERVAL_MS
                                         THEN 2 * LOD_INTERVAL_MS ELSE @ + dt]
        /\ lod_active \/ hist' # hist

NextDebounce ==
    \/ DebouncePress
    \/ DebounceMove
    \/ DebounceRelease
    \/ DebounceSpace
    \/ DebounceWheel
    \/ DebounceResize
    \/ DebouncePass
    \/ DebounceTick

SpecDebounce == InitDebounce /\ [][NextDebounce]_vars

\* C3: the pan and wheel events of one burst (each arriving while the timer armed
\* by the previous one is still pending) cause exactly one Streamer pass, and it
\* runs one debounce interval after the last of them: until then a pass is pending
\* with the time left counted from the last event, and once it ran no second pass
\* follows.
C3_DebounceCoalesces ==
    hist.burstLen > 0 =>
        /\ hist.burstPasses <= 1
        /\ hist.burstPasses = 1 => (hist.onTime /\ ~lod_active)
        /\ hist.burstPasses = 0 =>
              (lod_active /\ lod_remaining = LOD_INTERVAL_MS - hist.idle)

\* a burst of three events, the later ones within the window, and its single pass
C3_Witness ==
    hist.burstLen = 3 /\ hist.burstPasses = 1 /\ ~lod_active

\* C4 as stated: every event that changes the visible rectangle or the zoom (pan,
\* wheel, viewport resize) leaves a Streamer pass scheduled.
C4_EveryViewChangeSchedules ==
    [][(ViewRect' # ViewRect \/ zoom' # zoom) => lod_active']_vars

-----------------------------------------------------------------------------
(* SpecResize: selection, hovering and corner-resize drags of the items.   *)
(* hist.presses  resize drags begun so far                                 *)
(* hist.item     the item that took the last resize press                  *)
(* hist.mode     "single" or "multi" while a resize drag is on, else "none"*)
(* hist.corner   the corner being dragged                                  *)
(* hist.members  the items the drag resizes                                *)
(* hist.anchor0  world position, at the press, of the footprint corner (or *)
(*               of the corner of the union of the selected footprints)    *)
(*               opposite the dragged one                                  *)
(* hist.start    scale and position of every item at the press             *)
(* hist.f        factor of the last pointer move: distance(anchor, pointer)*)
(*               / distance(anchor, dragged corner at the press); <<>> if  *)
(*               no move was applied yet                                   *)
(* hist.pointer  world position of the pointer at the last move of the     *)
(*               drag; <<>> before the first move                          *)

\* Resize drags per behaviour.  The selection is made before the first drag;
\* between drags the pointer hovers over the item dragged last.
MaxPress == 1

ResizeThumb == <<60, 80>>
ResizeSpots == <<IPt(0, 0), IPt(100, 0), IPt(0, 120)>>
ResizeLayouts == {<<1>>, <<1, 2>>, <<1, 2, 3>>}
ResizeScenes ==
    {[i \in DOMAIN l |-> NewItem(i, ResizeThumb[1], ResizeThumb[2], ResizeSpots[l[i]])] :
        l \in ResizeLayouts}
\* where the pointer goes during a drag: the dragged corner turned and stretched
\* about the anchor by these complex factors (modulus 2, 1/2, 1/32, 0, 1, 1)
ResizeTurns ==
    {<<I2R(2), I2R(0)>>, <<R(1, 2), I2R(0)>>, <<R(1, 32), I2R(0)>>,
     <<I2R(0), I2R(0)>>, <<I2R(-1), I2R(0)>>, <<R(3, 5), R(4, 5)>>}
\* the press lands on the dragged corner or, for a lone item, a little off it
PressOffsets(sc) == IF Len(sc) = 1 THEN {IPt(0, 0), IPt(3, 4)} ELSE {IPt(0, 0)}
\* the pointer hovers over a corner of the item or over its centre: any corner of
\* the first item, the bottom-right corner of the others
HoverSpots(sc, i) ==
    {CornerOf(BoundingRect(sc[i]), c) : c \in (IF i = 1 THEN Corners ELSE {"br"})}
        \cup {IPt(0, 0)}
Modulus(z) == RSqrt(RAdd(RMul(z[1], z[1]), RMul(z[2], z[2])))

InitResize ==
    /\ scene \in ResizeScenes
    /\ decodable = Files(scene)
    /\ grabber = 0
    /\ zoom = I2R(1)
    /\ hval = -100 /\ vval = -100
    /\ vw = 200 /\ vh = 200
    /\ is_panning = FALSE /\ pan_start = <<0, 0>> /\ space_pressed = FALSE
    /\ lod_active = FALSE /\ lod_remaining = 0
    /\ revision = "win"
    /\ MainDefaults
    /\ hist = [presses |-> 0, item |-> 0, mode |-> "none", corner |-> "none",
               members |-> {},
               anchor0 |-> NoPoint, start |-> <<>>, f |-> <<>>, pointer |-> <<>>]

ResizeHover ==
    \E i \in DOMAIN scene : \E pos \in HoverSpots(scene, i) :
        /\ hist.presses = 0 \/ i = hist.item
        /\ ItemHover(i, pos) /\ UNCHANGED hist

ResizeSelect ==
    \E S \in SUBSET DOMAIN scene :
        /\ hist.presses = 0
        /\ SetSelection(S) /\ scene' # scene /\ UNCHANGED hist

\* a press that starts a resize drag
ResizePress ==
    \E i \in DOMAIN scene : \E off \in PressOffsets(scene) :
        /\ scene[i].resize_corner # "none"
        /\ hist.presses < MaxPress
        /\ ItemPress(i, PAdd(MapToScene(scene[i],
                                  CornerOf(BoundingRect(scene[i]), scene[i].resize_corner)),
                             off))
        /\ LET sel == SelectedItems(scene)
               multi == Cardinality(sel) > 1
               c == scene[i].resize_corner
           IN  hist' = [presses |-> hist.presses + 1,
                        item |-> i,
                        mode |-> IF multi THEN "multi" ELSE "single",
                        corner |-> c,
                        members |-> IF multi THEN sel ELSE {i},
                        anchor0 |-> CornerOf(IF multi THEN UnitedAll(scene, sel)
                                             ELSE SceneBoundingRect(scene[i]),
                                             Opposite(c)),
                        start |-> [j \in DOMAIN scene |->
                                     [scale |-> scene[j].scale, pos |-> scene[j].pos]],
                        f |-> <<>>,
                        pointer |-> <<>>]

\* a press on an item away from its corners: select it, grab it for a move
ResizeGrab ==
    \E i \in DOMAIN scene :
        /\ scene[i].resize_corner = "none"
        /\ hist.presses = 0
        /\ ItemPress(i, scene[i].pos)
        /\ UNCHANGED hist

ResizeMove ==
    \E i \in DOMAIN scene : \E z \in ResizeTurns :
        /\ grabber = i /\ scene[i].is_resizing
        /\ \E mouse_pos \in {Turned(scene[i].anchor_scene,
                                    scene[i].drag_corner_scene_start, z)} :
              /\ ItemMoveResize(i, mouse_pos)
              /\ hist' = [hist EXCEPT !.f =
                             IF RLt(I2R(1), LenSq(scene[i].anchor_scene,
                                                  scene[i].drag_corner_scene_start))
                             THEN Modulus(z) ELSE @,
                                      !.pointer = mouse_pos]

ResizeRelease ==
    \E i \in DOMAIN scene :
        /\ ItemRelease(i)
        /\ hist' = [hist EXCEPT !.mode = "none", !.members = {}, !.f = <<>>,
                                !.pointer = <<>>]

NextResize ==
    \/ ResizeHover
    \/ ResizeSelect
    \/ ResizePress
    \/ ResizeGrab
    \/ ResizeMove
    \/ ResizeRelease

SpecResize == InitResize /\ [][NextResize]_vars

\* C6: during a resize drag, single or multi-selection, whatever the pointer
\* moves were, every item the drag resizes has scale >= MIN_SCALE (0.05).
C6_ResizeKeepsMinScale ==
    hist.mode # "none" =>
        \A j \in hist.members : RLe(MIN_SCALE, scene[j].scale)

\* a drag reversed as far as the anchor: a resized item sits at the clamp
C6_Witness ==
    /\ hist.mode # "none" /\ hist.f = I2R(0)
    /\ \E j \in hist.members : scene[j].scale = MIN_SCALE

\* C8: during a single-selection resize, after every pointer move, the footprint
\* corner opposite the dragged one is where it was at the press.
C8_AnchorFixed ==
    hist.mode = "single" =>
        \A j \in hist.members :
            CornerOf(SceneBoundingRect(scene[j]), Opposite(hist.corner)) = hist.anchor0

\* a single resize whose last move was clamped to the minimum scale
C8_Witness ==
    /\ hist.mode = "single" /\ hist.f = R(1, 32)
    /\ \E j \in hist.members : scene[j].scale = MIN_SCALE

\* scale and position a multi-selection resize with factor f gives item j when
\* nothing limits the scale
GroupScale(j) == RMul(hist.start[j].scale, hist.f)
GroupPos(j) ==
    PAdd(hist.anchor0, PScale(PSub(hist.start[j].pos, hist.anchor0), hist.f))

\* C9 as stated: in a multi-selection resize with factor f the anchor is the
\* corner of the union of the selected footprints opposite the dragged corner,
\* every selected item's scale is startScale x f and its position is
\* anchor + (startPosition - anchor) x f.
C9_GroupResizeAsStated ==
    (hist.mode = "multi" /\ hist.f # <<>>) =>
        \A j \in hist.members :
            /\ scene[j].scale = GroupScale(j)
            /\ scene[j].pos = GroupPos(j)

\* C9 amended: as above, except that the scale is max(0.05, startScale x f); the
\* position still follows f.
C9_GroupResizeClamped ==
    (hist.mode = "multi" /\ hist.f # <<>>) =>
        \A j \in hist.members :
            /\ scene[j].scale = RMax(MIN_SCALE, GroupScale(j))
            /\ scene[j].pos = GroupPos(j)

\* three selected items, the bottom-right handle dragged outward by a factor of 2
C9_Witness ==
    /\ hist.mode = "multi" /\ hist.f = I2R(2) /\ hist.corner = "br"
    /\ Cardinality(hist.members) = 3
    /\ \A j \in hist.members : scene[j].scale = I2R(2)

\* where the dragged corner of item i was at the press
PressedCorner(i) ==
    MapToScene([scene[i] EXCEPT !.scale = hist.start[i].scale,
                                !.pos = hist.start[i].pos],
               CornerOf(BoundingRect(scene[i]), hist.corner))

\* the scale max(0.05, initialScale x distance(anchor, pointer) /
\* distance(anchor, from)) is the scale of item j
ScaledFrom(j, from) ==
    LET ratio_sq == LengthRatioSq(hist.anchor0, hist.pointer, from)
        wanted_sq == RMul(RMul(hist.start[j].scale, hist.start[j].scale), ratio_sq)
    IN  IF RLt(wanted_sq, R(25, 10000))
        THEN scene[j].scale = R(5, 100)
        ELSE RMul(scene[j].scale, scene[j].scale) = wanted_sq

C27_GroupStaysUniform ==
    (hist.mode = "multi" /\ hist.pointer # <<>>) =>
        \E r \in {RDiv(scene[k].scale, hist.start[k].scale) : k \in hist.members} :
            \A j \in hist.members :
                /\ RDiv(scene[j].scale, hist.start[j].scale) = r
                /\ PSub(scene[j].pos, hist.anchor0) =
                       PScale(PSub(hist.start[j].pos, hist.anchor0), r)

\* C21: an item is in Resizing only between a left-button press, made while it
\* was selected and the pointer was within the corner margin (20 px on screen) of
\* one of its corners, and the next release.
C21_ResizingOnlyFromHoveredCorner ==
    \A i \in DOMAIN scene :
        scene[i].is_resizing =>
            /\ grabber = i
            /\ scene[i].selected
            /\ RLt(RMul(Manhattan(scene[i].start_mouse_pos, PressedCorner(i)), zoom),
                   I2R(HOVER_MARGIN))

-----------------------------------------------------------------------------
(* SpecPack: auto-arrange over small scenes whose items differ in size and  *)
(* are dragged about between arrangements.                                 *)
(* hist.arranged  the last step was an arrangement                         *)
(* hist.placed    the items the packer placed in that arrangement          *)
(* hist.drags     pointer moves of item drags so far                       *)
(* hist.before    the scene as that arrangement found it                   *)

MaxDrag == 1         \* pointer moves of item drags per behaviour
MaxPackItems == 3    \* items in a scene

PackThumbs == {<<150, 60>>, <<100, 160>>, <<60, 60>>, <<100, 6000>>}
PackSpots == <<IPt(0, 0), IPt(40, -30), IPt(-200, 500)>>
PackDeltas == {IPt(25, 0), IPt(-400, 300)}
PackScenes ==
    UNION {{[i \in 1..n |-> NewItem(i, t[i][1], t[i][2], PackSpots[i])] :
                t \in [1..n -> PackThumbs]} : n \in 0..MaxPackItems}

\* the items organize_items gets a rectangle for
Placed(sc) ==
    IF Len(sc) = 0 THEN {}
    ELSE LET rects == PackRects(sc)
             placed == Pack(BinWidth(rects), BinHeight(rects), rects)
         IN  {placed[k].rid : k \in DOMAIN placed}

InitPack ==
    /\ scene \in PackScenes
    /\ decodable = Files(scene)
    /\ grabber = 0
    /\ zoom = I2R(1)
    /\ hval = -100 /\ vval = -100
    /\ vw = 200 /\ vh = 200
    /\ is_panning = FALSE /\ pan_start = <<0, 0>> /\ space_pressed = FALSE
    /\ lod_active = FALSE /\ lod_remaining = 0
    /\ revision = "win"
    /\ MainDefaults
    /\ hist = [arranged |-> FALSE, placed |-> {}, drags |-> 0, before |-> <<>>]

PackArrange ==
    /\ AutoArrange
    /\ hist' = [hist EXCEPT !.arranged = TRUE, !.placed = Placed(scene),
                            !.before = scene]

PackGrab ==
    \E i \in DOMAIN scene :
        /\ hist.drags < MaxDrag
        /\ ItemPress(i, scene[i].pos)
        /\ hist' = [hist EXCEPT !.arranged = FALSE]

PackDrag ==
    \E i \in DOMAIN scene : \E d \in PackDeltas :
        /\ hist.drags < MaxDrag
        /\ ItemMoveDrag(i, d)
        /\ hist' = [hist EXCEPT !.arranged = FALSE, !.drags = @ + 1]

PackRelease ==
    \E i \in DOMAIN scene :
        /\ ItemRelease(i)
        /\ hist' = [hist EXCEPT !.arranged = FALSE]

PackPass ==
    /\ LodTimeout
    /\ hist' = [hist EXCEPT !.arranged = FALSE]

PackWait ==
    /\ lod_active
    /\ Tick(lod_remaining)
    /\ hist' = [hist EXCEPT !.arranged = FALSE]

NextPack ==
    \/ PackArrange
    \/ PackGrab
    \/ PackDrag
    \/ PackRelease
    \/ PackPass
    \/ PackWait

SpecPack == InitPack /\ [][NextPack]_vars

\* C5: after auto-arrange the footprints of the items that received a placement
\* are pairwise disjoint: no two of them share area.
C5_ArrangedDisjoint ==
    hist.arranged =>
        \A i, j \in hist.placed :
            i # j => ~Overlap(SceneBoundingRect(scene[i]), SceneBoundingRect(scene[j]))

\* C15: when the packer could not place some item, the arrangement is abandoned:
\* every item, placed or not, is where it was before auto-arrange.
C15_RejectionAbandonsArrangement ==
    (hist.arranged /\ hist.placed # DOMAIN scene) =>
        \A i \in DOMAIN scene : scene[i].pos = hist.before[i].pos

\* the centre of rectangle r
Centre(r) == <<RAdd(r.x, RDiv(r.w, I2R(2))), RAdd(r.y, RDiv(r.h, I2R(2)))>>

\* C16: auto-arrange of a canvas holding exactly one item leaves the item's
\* footprint centred on the world origin.
C16_SingleItemAtOrigin ==
    (hist.arranged /\ Len(scene) = 1) =>
        Centre(SceneBoundingRect(scene[1])) = IPt(0, 0)

\* C20: the bin chosen for the footprints of the scene is at least as wide and as
\* tall as every inflated footprint, and the packer rejects no item.
C20_BinHoldsEveryFootprint ==
    (hist.arranged /\ Len(scene) > 0) =>
        /\ \A rects \in {PackRects(scene)} : \A k \in DOMAIN rects :
              rects[k].w <= BinWidth(rects) /\ rects[k].h <= BinHeight(rects)
        /\ hist.placed = DOMAIN scene

\* C24: auto-arrange changes nothing of an item but its position; an item the
\* packer placed moves by the delta from its footprint's top-left corner to the
\* packer's offset less half the bin, 40 px of label clearance above it; an item
\* the packer did not place stays; with no item nothing changes.
C24_ArrangeMovesPlacedOnly ==
    hist.arranged =>
        /\ Len(scene) = Len(hist.before)
        /\ \A j \in DOMAIN scene :
              [scene[j] EXCEPT !.pos = hist.before[j].pos] = hist.before[j]
        /\ \A j \in DOMAIN scene \ hist.placed : scene[j].pos = hist.before[j].pos
        /\ Len(scene) > 0 =>
              \A rects \in {PackRects(hist.before)} :
              \A placed \in {Pack(BinWidth(rects), BinHeight(rects), rects)} :
              \A k \in DOMAIN placed :
                  PSub(scene[placed[k].rid].pos, hist.before[placed[k].rid].pos) =
                      PSub(<<R(2 * placed[k].x - BinWidth(rects), 2),
                             R(2 * (placed[k].y + 40) - BinHeight(rects), 2)>>,
                           TopLeft(SceneBoundingRect(hist.before[placed[k].rid])))

\* an arrangement of a scene with a hot item and a selected item that moved an
\* item
C24_Witness ==
    /\ hist.arranged
    /\ \E j \in DOMAIN scene : scene[j].is_high_res
    /\ \E j \in DOMAIN scene : scene[j].selected
    /\ \E j \in hist.placed : scene[j].pos # hist.before[j].pos

-----------------------------------------------------------------------------
(* SpecLoad: folders are loaded onto the canvas.                            *)
(* hist.loads     folders loaded so far                                    *)
(* hist.arranges  presses of the auto-arrange button so far                *)
(* hist.loaded    the last step was a load_images                          *)
(* hist.folder    the files handed to the last load_images                 *)

MaxLoad == 1         \* folders loaded per behaviour
MaxArrange == 1      \* presses of the auto-arrange button per behaviour
MaxFolder == 302     \* files in the longest folder

\* the picture in file id: every third one is wide, every other third is tall
FileOf(id) ==
    [id |-> id,
     w |-> IF id % 3 = 0 THEN 3200 ELSE 100,
     h |-> IF id % 3 = 0 THEN 2000 ELSE IF id % 3 = 1 THEN 100 ELSE 160]

\* a folder of n files that look alike (ids 1, 4, 7, ...)
Folder(n) == [k \in 1..n |-> FileOf(3 * k - 2)]

LoadFolders ==
    {Folder(n) : n \in {0, 1, 2, MaxFolder - 3, MaxFolder - 2, MaxFolder - 1, MaxFolder}}
        \cup {<<FileOf(1), FileOf(2)>>, <<FileOf(2), FileOf(1)>>, <<FileOf(3)>>,
              <<FileOf(2), FileOf(3), FileOf(4)>>, <<FileOf(3), FileOf(2)>>}

\* random.randint(-500, 500) for x and for y: the positions drawn for a folder
RandomSpots == <<IPt(-500, -500), IPt(0, 17), IPt(500, 500)>>
RandomSeeds == {0, 1}

InitLoad ==
    /\ scene = <<>>
    /\ decodable \in {(1..(3 * MaxFolder)) \ X : X \in {{}, {4}, {4, 7}}}
    /\ grabber = 0
    /\ zoom = I2R(1)
    /\ hval = -100 /\ vval = -100
    /\ vw = 200 /\ vh = 200
    /\ is_panning = FALSE /\ pan_start = <<0, 0>> /\ space_pressed = FALSE
    /\ lod_active = FALSE /\ lod_remaining = 0
    /\ revision = "win"
    /\ MainDefaults
    /\ hist = [loads |-> 0, arranges |-> 0, loaded |-> FALSE, folder |-> <<>>]

LoadFolder ==
    \E listing \in LoadFolders : \E seed \in RandomSeeds :
        /\ hist.loads < MaxLoad
        /\ LET spot == [k \in 1..Len(listing) |->
                         RandomSpots[((k + seed) % Len(RandomSpots)) + 1]]
           IN  LoadImages(listing, spot)
        /\ hist' = [hist EXCEPT !.loads = @ + 1, !.loaded = TRUE, !.folder = listing]

LoadArrange ==
    /\ hist.arranges < MaxArrange
    /\ AutoArrange
    /\ hist' = [hist EXCEPT !.arranges = @ + 1, !.loaded = FALSE]

LoadPass ==
    /\ LodTimeout
    /\ hist' = [hist EXCEPT !.loaded = FALSE]

LoadWait ==
    /\ lod_active
    /\ Tick(lod_remaining)
    /\ hist' = [hist EXCEPT !.loaded = FALSE]

NextLoad ==
    \/ LoadFolder
    \/ LoadArrange
    \/ LoadPass
    \/ LoadWait

SpecLoad == InitLoad /\ [][NextLoad]_vars

\* C10: after load_images, on however many files, the canvas holds at most the
\* cap of 300 items.
C10_AtMostCapItems ==
    hist.loaded => Len(scene) <= MAX_ITEMS

\* the arrangement has run over the scene: some item's footprint has its top-left
\* corner at the bin's corner, label clearance below (-bin_width / 2,
\* -bin_height / 2 + text_padding)
ArrangementRan ==
    \E rects \in {PackRects(scene)} :
        \E i \in DOMAIN scene :
            TopLeft(SceneBoundingRect(scene[i])) =
                <<R(-BinWidth(rects), 2),
                  RAdd(R(-BinHeight(rects), 2), I2R(TEXT_PADDING))>>

\* C11: after load_images no item stands for a file that does not decode; every
\* file that decodes and has at most cap - 1 decodable files before it (failures
\* are not counted) has its item, so a failure neither stops nor fails the batch;
\* and the final auto-arrange has run.
C11_DecodeFailureSkipped ==
    hist.loaded =>
        LET listing == hist.folder
            rank(k) == Cardinality({j \in 1..k : Decodes(listing[j].id)})
        IN  /\ \A i \in DOMAIN scene : Decodes(scene[i].file)
            /\ \A k \in DOMAIN listing :
                  (Decodes(listing[k].id) /\ rank(k) <= MAX_ITEMS) =>
                      \E i \in DOMAIN scene : scene[i].file = listing[k].id
            /\ Len(scene) > 0 => ArrangementRan

\* the longest folder loaded with files that do not decode in it: the last file
\* is the 300th that decodes, and it is on the canvas
C11_Witness ==
    /\ hist.loaded
    /\ Len(hist.folder) = MaxFolder
    /\ \E k \in DOMAIN hist.folder : ~Decodes(hist.folder[k].id)
    /\ Len(scene) = MAX_ITEMS
    /\ scene[Len(scene)].file = hist.folder[MaxFolder].id

-----------------------------------------------------------------------------
(* SpecLegacy: the legacy canvas (src/overview.py), where Ctrl+wheel scales *)
(* the selected items.                                                     *)
(* hist.ups, hist.downs  Ctrl+wheel notches up and down so far              *)
(* hist.wheels           plain wheel notches so far                        *)

MaxUp == 1           \* Ctrl+wheel notches up per behaviour
MaxDown == 30        \* Ctrl+wheel notches down per behaviour

LegacyScenes ==
    {[i \in 1..n |-> NewItem(i, StreamThumb[1], StreamThumb[2], StreamSpots[i])] :
        n \in 1..2}

InitLegacy ==
    /\ scene \in LegacyScenes
    /\ decodable = Files(scene)
    /\ grabber = 0
    /\ zoom = I2R(1)
    /\ hval = -100 /\ vval = -100
    /\ vw = 200 /\ vh = 200
    /\ is_panning = FALSE /\ pan_start = <<0, 0>> /\ space_pressed = FALSE
    /\ lod_active = FALSE /\ lod_remaining = 0
    /\ revision = "legacy"
    /\ MainDefaults
    /\ hist = [ups |-> 0, downs |-> 0, wheels |-> 0]

\* the selection is made before the first Ctrl+wheel notch
LegacySelect ==
    \E S \in SUBSET DOMAIN scene :
        /\ hist.ups + hist.downs = 0
        /\ SetSelection(S) /\ scene' # scene /\ UNCHANGED hist

LegacyCtrlWheel ==
    \E up \in BOOLEAN :
        /\ IF up THEN hist.ups < MaxUp ELSE hist.downs < MaxDown
        /\ SelectedItems(scene) # {}
        /\ LegacyWheel(TRUE, up, ViewCentre)
        /\ hist' = [hist EXCEPT !.ups = IF up THEN @ + 1 ELSE @,
                                !.downs = IF up THEN @ ELSE @ + 1]

LegacyZoomWheel ==
    \E up \in BOOLEAN :
        /\ hist.wheels < MaxWheel
        /\ LegacyWheel(FALSE, up, ViewCentre) /\ ScrollInBounds
        /\ hist' = [hist EXCEPT !.wheels = @ + 1]

NextLegacy ==
    \/ LegacySelect
    \/ LegacyCtrlWheel
    \/ LegacyZoomWheel

SpecLegacy == InitLegacy /\ [][NextLegacy]_vars

\* C7: in every reachable state, whatever operations changed the items' scales
\* (corner resize drags, Ctrl+wheel scaling of the selected items), every item's
\* scale is at least MIN_SCALE (0.05).
C7_ScaleNeverBelowMin ==
    \A i \in DOMAIN scene : RLe(MIN_SCALE, scene[i].scale)

-----------------------------------------------------------------------------
(* SpecThumb: the thumbnail step of load_images on one pixmap, in both       *)
(* revisions and under every setting of max_image_width.                    *)
(* hist.w, hist.h  size of the decoded pixmap                               *)
(* hist.thumb      size of the thumbnail the item is made of (<<>> before)  *)

ThumbWidths == {1, 400, 800, 999, 1000, 1001, 1599, 1600, 1601, 2000, 3000}
ThumbHeights == {1, 75, 100}
ThumbMaxWidths == {-1, 0, 1, 800, MAX_IMAGE_WIDTH, 2000}

InitThumb ==
    /\ scene = <<>>
    /\ decodable = {1}
    /\ grabber = 0
    /\ zoom = I2R(1)
    /\ hval = -100 /\ vval = -100
    /\ vw = 200 /\ vh = 200
    /\ is_panning = FALSE /\ pan_start = <<0, 0>> /\ space_pressed = FALSE
    /\ lod_active = FALSE /\ lod_remaining = 0
    /\ revision \in {"win", "legacy"}
    /\ current_folder = "A"
    /\ enable_overview = TRUE
    /\ max_image_width \in IF revision = "win" THEN ThumbMaxWidths ELSE {MAX_IMAGE_WIDTH}
    /\ grid_size = GRID_SIZE
    /\ NoReview
    /\ \E w \in ThumbWidths : \E h \in ThumbHeights :
          hist = [w |-> w, h |-> h, thumb |-> <<>>]

ThumbWin ==
    /\ revision = "win" /\ hist.thumb = <<>>
    /\ hist' = [hist EXCEPT !.thumb = ThumbnailSize(hist.w, hist.h)]
    /\ UNCHANGED <<itemVars, viewVars, panVars, timerVars, revision, mainVars>>

ThumbLegacy ==
    /\ revision = "legacy" /\ hist.thumb = <<>>
    /\ hist' = [hist EXCEPT !.thumb = LegacyThumbnailSize(hist.w, hist.h)]
    /\ UNCHANGED <<itemVars, viewVars, panVars, timerVars, revision, mainVars>>

NextThumb ==
    \/ ThumbWin
    \/ ThumbLegacy

SpecThumb == InitThumb /\ [][NextThumb]_vars

\* the maximum thumbnail width in force: the configured max_image_width in the Win
\* revision, the fixed 1000 of the legacy revision
MaxThumbWidth == IF revision = "win" THEN max_image_width ELSE 1000

-----------------------------------------------------------------------------
(* SpecZoom: wheel notches over the canvas, in both revisions.              *)
(* hist.ins, hist.outs  wheel notches up (zoom in) and down (zoom out)      *)

MaxZoomIn == 1       \* wheel notches up per behaviour
MaxZoomOut == 46     \* wheel notches down per behaviour

InitZoom ==
    /\ scene \in LegacyScenes
    /\ decodable = Files(scene)
    /\ grabber = 0
    /\ zoom = I2R(1)
    /\ hval = -100 /\ vval = -100
    /\ vw = 200 /\ vh = 200
    /\ is_panning = FALSE /\ pan_start = <<0, 0>> /\ space_pressed = FALSE
    /\ lod_active = FALSE /\ lod_remaining = 0
    /\ revision \in {"win", "legacy"}
    /\ MainDefaults
    /\ hist = [ins |-> 0, outs |-> 0]

Notched(up) ==
    /\ IF up THEN hist.ins < MaxZoomIn ELSE hist.outs < MaxZoomOut
    /\ hist' = [hist EXCEPT !.ins = IF up THEN @ + 1 ELSE @,
                            !.outs = IF up THEN @ ELSE @ + 1]

ZoomWheelWin ==
    \E up \in BOOLEAN : Wheel(up, ViewCentre) /\ Notched(up)

ZoomWheelLegacy ==
    \E up \in BOOLEAN : LegacyWheel(FALSE, up, ViewCentre) /\ Notched(up)

ZoomPass ==
    LodTimeout /\ UNCHANGED hist

ZoomWait ==
    lod_active /\ Tick(lod_remaining) /\ UNCHANGED hist

NextZoom ==
    \/ ZoomWheelWin
    \/ ZoomWheelLegacy
    \/ ZoomPass
    \/ ZoomWait

SpecZoom == InitZoom /\ [][NextZoom]_vars

\* C17: after any sequence of wheel events the zoom scale of the viewport lies in
\* the fixed range [0.01, 100].
C17_ZoomInRange ==
    RLe(<<1, 100>>, zoom) /\ RLe(zoom, <<100, 1>>)

-----------------------------------------------------------------------------
(* SpecPan: pans of the canvas among hovers, selections, drags and resizes  *)
(* of items.                                                               *)
(* hist.snapshot  the scene at the press that started the pan under way    *)
(* hist.over      the items under the pointer at that press                *)
(* hist.ended     the last step was the release that ended the pan         *)
(* hist.moved     a scroll bar has moved during the pan                    *)
(* hist.events    item events (hover, select, press, move, release) so far *)
(* hist.presses   presses taken for a pan so far                           *)
(* hist.button    the button of the last such press                        *)

MaxPanEvents == 3    \* item events per behaviour
MaxPanPress == 1     \* presses taken for a pan per behaviour

PanScenes == {[i \in 1..2 |-> NewItem(i, StreamThumb[1], StreamThumb[2], StreamSpots[i])]}
PanPoints == {<<100, 100>>, <<160, 100>>}
PanTurns == {<<I2R(2), I2R(0)>>, <<R(1, 2), I2R(0)>>}
PanDeltas == {IPt(25, 0)}

\* the items whose footprint holds the scene point under view position pos
Under(pos) ==
    {i \in DOMAIN scene :
        LET r == SceneBoundingRect(scene[i])
            x == RDiv(I2R(hval + pos[1]), zoom)
            y == RDiv(I2R(vval + pos[2]), zoom)
        IN  /\ RLe(r.x, x) /\ RLt(x, Right(r))
            /\ RLe(r.y, y) /\ RLt(y, Bottom(r))}

InitPan ==
    /\ scene \in PanScenes
    /\ decodable = Files(scene)
    /\ grabber = 0
    /\ zoom = I2R(1)
    /\ hval = -100 /\ vval = -100
    /\ vw = 200 /\ vh = 200
    /\ is_panning = FALSE /\ pan_start = <<0, 0>> /\ space_pressed = FALSE
    /\ lod_active = FALSE /\ lod_remaining = 0
    /\ revision = "win"
    /\ MainDefaults
    /\ hist = [snapshot |-> <<>>, over |-> {}, ended |-> FALSE, moved |-> FALSE,
               events |-> 0, presses |-> 0, button |-> "none"]

ItemEvent ==
    /\ hist.events < MaxPanEvents
    /\ hist' = [hist EXCEPT !.events = @ + 1, !.ended = FALSE]

PanItemHover ==
    \E i \in DOMAIN scene : \E pos \in HoverSpots(scene, i) :
        ItemHover(i, pos) /\ scene' # scene /\ ItemEvent

PanItemSelect ==
    \E S \in SUBSET DOMAIN scene :
        SetSelection(S) /\ scene' # scene /\ ItemEvent

PanItemPress ==
    \E i \in DOMAIN scene :
        /\ ItemPress(i, IF scene[i].resize_corner # "none"
                        THEN MapToScene(scene[i], CornerOf(BoundingRect(scene[i]),
                                                           scene[i].resize_corner))
                        ELSE scene[i].pos)
        /\ ItemEvent

PanItemMove ==
    \E i \in DOMAIN scene :
        /\ \/ \E z \in PanTurns :
                ItemMoveResize(i, Turned(scene[i].anchor_scene,
                                         scene[i].drag_corner_scene_start, z))
           \/ \E d \in PanDeltas : ItemMoveDrag(i, d)
        /\ ItemEvent

PanItemRelease ==
    \E i \in DOMAIN scene : ItemRelease(i) /\ ItemEvent

\* the press that starts a pan: the middle button at any time, the left button
\* (free, so no item holds it) while space is held
PanPress ==
    \E button \in {"middle", "left"} : \E pos \in PanPoints :
        /\ hist.presses < MaxPanPress
        /\ button = "left" => (grabber = 0 /\ ~is_panning)
        /\ CanvasPressPan(button, pos)
        /\ hist' = IF is_panning
                   THEN [hist EXCEPT !.presses = @ + 1, !.ended = FALSE,
                                     !.button = button]
                   ELSE [hist EXCEPT !.presses = @ + 1, !.ended = FALSE,
                                     !.button = button,
                                     !.snapshot = scene, !.over = Under(pos),
                                     !.moved = FALSE]

PanMove ==
    \E pos \in PanPoints :
        /\ CanvasMovePan(pos) /\ ScrollInBounds
        /\ hist' = [hist EXCEPT !.ended = FALSE,
                                !.moved = @ \/ hval' # hval \/ vval' # vval]

PanRelease ==
    /\ CanvasReleasePan
    /\ hist' = [hist EXCEPT !.ended = TRUE]

PanSpace ==
    \E down \in BOOLEAN :
        /\ space_pressed # down
        /\ KeySpace(down)
        /\ hist' = [hist EXCEPT !.ended = FALSE]

PanPass ==
    /\ LodTimeout
    /\ hist' = [hist EXCEPT !.ended = FALSE]

PanWait ==
    /\ lod_active
    /\ Tick(lod_remaining)
    /\ hist' = [hist EXCEPT !.ended = FALSE]

NextPan ==
    \/ PanItemHover
    \/ PanItemSelect
    \/ PanItemPress
    \/ PanItemMove
    \/ PanItemRelease
    \/ PanPress
    \/ PanMove
    \/ PanRelease
    \/ PanSpace
    \/ PanPass
    \/ PanWait

SpecPan == InitPan /\ [][NextPan]_vars

\* item it without what the Streamer keeps for it
Cold(it) == [it EXCEPT !.is_high_res = FALSE, !.high_res_pixmap = FALSE]

C30_PanFlagFollowsButtons ==
    [][/\ (~is_panning /\ is_panning') =>
            /\ hist'.presses = hist.presses + 1
            /\ hist'.button = "middle" \/ (hist'.button = "left" /\ space_pressed)
       /\ (is_panning /\ ~is_panning') => (hist'.ended /\ ~hist.ended)
       /\ (space_pressed' # space_pressed) => (is_panning' = is_panning)
       /\ (hval' # hval \/ vval' # vval) => (is_panning /\ is_panning')]_vars

\* a pan begun with the left button goes on, space released, and has moved the
\* view
C30_Witness ==
    /\ is_panning /\ hist.button = "left" /\ ~space_pressed /\ hist.moved

-----------------------------------------------------------------------------
(* SpecFolder: folders are opened and closed and the settings are changed.  *)
(* hist.opened    folders opened so far                                    *)

MaxOpen == 3         \* folders opened per behaviour

\* the pictures listed in a folder; a file id stands for the full path, so the
\* ids of different folders differ
FolderFiles(name) ==
    IF name = "A" THEN <<FileOf(1), FileOf(4)>>
    ELSE IF name = "B" THEN <<FileOf(2), FileOf(5)>>
    ELSE <<FileOf(3)>>

\* the folder of the file with this id
FolderOf(id) ==
    IF id % 3 = 1 THEN "A" ELSE IF id % 3 = 2 THEN "B" ELSE "C"

SettingsWidths == {MAX_IMAGE_WIDTH, 80}

InitFolder ==
    /\ scene = <<>>
    /\ decodable = 1..5
    /\ grabber = 0
    /\ zoom = I2R(1)
    /\ hval = -100 /\ vval = -100
    /\ vw = 200 /\ vh = 200
    /\ is_panning = FALSE /\ pan_start = <<0, 0>> /\ space_pressed = FALSE
    /\ lod_active = FALSE /\ lod_remaining = 0
    /\ revision = "win"
    /\ current_folder = ""
    /\ enable_overview = TRUE
    /\ max_image_width = MAX_IMAGE_WIDTH
    /\ grid_size = GRID_SIZE
    /\ NoReview
    /\ hist = [opened |-> 0]

FolderOpen ==
    \E name \in FolderNames : \E seed \in RandomSeeds :
        /\ hist.opened < MaxOpen
        /\ LET listing == FolderFiles(name)
               spot == [k \in 1..Len(listing) |->
                         RandomSpots[((k + seed) % Len(RandomSpots)) + 1]]
           IN  load_folder(name, listing, spot)
        /\ hist' = [hist EXCEPT !.opened = @ + 1]

FolderClose ==
    /\ current_folder # ""
    /\ close_folder
    /\ UNCHANGED hist

FolderSettings ==
    \E enabled \in BOOLEAN : \E max_w \in SettingsWidths :
        /\ <<enabled, max_w>> # <<enable_overview, max_image_width>>
        /\ open_settings(enabled, max_w, grid_size)
        /\ UNCHANGED hist

FolderPass ==
    /\ LodTimeout
    /\ UNCHANGED hist

FolderWait ==
    /\ lod_active
    /\ Tick(lod_remaining)
    /\ UNCHANGED hist

NextFolder ==
    \/ FolderOpen
    \/ FolderClose
    \/ FolderSettings
    \/ FolderPass
    \/ FolderWait

SpecFolder == InitFolder /\ [][NextFolder]_vars

\* C19: after any sequence of open-folder, close-folder and settings changes the
\* canvas holds no item of a folder other than the currently open one.
C19_CanvasHoldsCurrentFolderOnly ==
    \A i \in DOMAIN scene : FolderOf(scene[i].file) = current_folder

-----------------------------------------------------------------------------
(* SpecGrid: the background is painted under every zoom, viewport size and  *)
(* grid size.                                                              *)
(* hist.painted   the background has been painted                          *)
(* hist.lod, hist.rect, hist.size   level of detail, exposed rectangle and  *)
(*                grid size at the last paint                              *)
(* hist.grid, hist.step   whether that paint drew the grid, and its step   *)
(* hist.wheels    wheel notches so far                                     *)

MaxGridWheel == 1    \* wheel notches per behaviour

GridZooms == {R(1, 10), R(19, 100), R(1, 5), R(1, 2), I2R(1)}
GridViewports == {<<200, 200>>, <<800, 800>>, <<801, 800>>, <<1000, 1000>>}
GridSizes == {-10, 0, 1, 20, GRID_SIZE}

InitGrid ==
    /\ scene = <<>>
    /\ decodable = {}
    /\ grabber = 0
    /\ zoom \in GridZooms
    /\ hval = 0 /\ vval = 0
    /\ vw = 200 /\ vh = 200
    /\ is_panning = FALSE /\ pan_start = <<0, 0>> /\ space_pressed = FALSE
    /\ lod_active = FALSE /\ lod_remaining = 0
    /\ revision = "win"
    /\ MainDefaults
    /\ hist = [painted |-> FALSE, lod |-> I2R(1), rect |-> Rect(I2R(0), I2R(0), I2R(0), I2R(0)),
               size |-> 0, grid |-> FALSE, step |-> 0, wheels |-> 0]

\* a paint event for the whole viewport
GridPaint ==
    /\ \E out \in {drawBackground(ViewRect, zoom, grid_size)} :
          hist' = [hist EXCEPT !.painted = TRUE, !.lod = zoom, !.rect = ViewRect,
                               !.size = grid_size, !.grid = out.grid,
                               !.step = out.step]
    /\ UNCHANGED <<itemVars, viewVars, panVars, timerVars, revision, mainVars>>

GridSettings ==
    \E grid \in GridSizes :
        /\ grid # grid_size
        /\ open_settings(enable_overview, max_image_width, grid)
        /\ UNCHANGED hist

GridResize ==
    \E size \in GridViewports :
        /\ ResizeViewport(size, FALSE)
        /\ UNCHANGED hist

GridWheel ==
    \E up \in BOOLEAN :
        /\ hist.wheels < MaxGridWheel
        /\ Wheel(up, <<0, 0>>)
        /\ hist' = [hist EXCEPT !.wheels = @ + 1]

NextGrid ==
    \/ GridPaint
    \/ GridSettings
    \/ GridResize
    \/ GridWheel

SpecGrid == InitGrid /\ [][NextGrid]_vars

-----------------------------------------------------------------------------
(* SpecPolicy: the canvas as a Streamer pass has left it, then pans, wheel  *)
(* zooms, item drags and resizes, auto-arranges, loads and further passes.  *)
(* hist.events    user events so far (passes and waiting are not counted)  *)
(* hist.last      the kind of the last step                                *)

MaxPolicyEvents == 5     \* user events per behaviour

PolicyDeltas == {IPt(150, 0), IPt(-400, 0)}
PolicyTurns == {<<I2R(2), I2R(0)>>}

\* item 1 in the middle of the view and hot, item 2 outside it and cold
InitPolicy ==
    /\ decodable = 1..5
    /\ grabber = 0
    /\ zoom = I2R(1)
    /\ hval = -100 /\ vval = -100
    /\ vw = 200 /\ vh = 200
    /\ scene = UpdateLodScene([i \in 1..2 |-> NewItem(i, StreamThumb[1], StreamThumb[2],
                                                    StreamSpots[i])],
                              ViewRectOf(zoom, hval, vval, vw, vh), zoom)
    /\ is_panning = FALSE /\ pan_start = <<0, 0>> /\ space_pressed = FALSE
    /\ lod_active = FALSE /\ lod_remaining = 0
    /\ revision = "win"
    /\ MainDefaults
    /\ hist = [events |-> 0, last |-> "pass"]

PolicyEvent(kind) ==
    /\ hist.events < MaxPolicyEvents
    /\ hist' = [events |-> hist.events + 1, last |-> kind]

PolicySelect ==
    \E S \in SUBSET DOMAIN scene :
        SetSelection(S) /\ scene' # scene /\ PolicyEvent("select")

\* the pointer, inside the viewport, reaches only items that show in it
PolicyHover ==
    \E i \in DOMAIN scene : \E pos \in HoverSpots(scene, i) :
        /\ Intersects(SceneBoundingRect(scene[i]), ViewRect)
        /\ ItemHover(i, pos) /\ scene' # scene /\ PolicyEvent("hover")

PolicyPress ==
    \E i \in DOMAIN scene :
        /\ Intersects(SceneBoundingRect(scene[i]), ViewRect)
        /\ ItemPress(i, IF scene[i].resize_corner # "none"
                        THEN MapToScene(scene[i], CornerOf(BoundingRect(scene[i]),
                                                           scene[i].resize_corner))
                        ELSE scene[i].pos)
        /\ PolicyEvent("press")

PolicyDrag ==
    \E i \in DOMAIN scene : \E d \in PolicyDeltas :
        ItemMoveDrag(i, d) /\ PolicyEvent("drag")

PolicyResize ==
    \E i \in DOMAIN scene : \E z \in PolicyTurns :
        /\ ItemMoveResize(i, Turned(scene[i].anchor_scene,
                                    scene[i].drag_corner_scene_start, z))
        /\ PolicyEvent("resize")

PolicyRelease ==
    \E i \in DOMAIN scene : ItemRelease(i) /\ PolicyEvent("release")

PolicyPanPress ==
    /\ CanvasPressPan("middle", <<0, 0>>)
    /\ PolicyEvent("pan")

PolicyPanMove ==
    \E pos \in StreamPanPoints :
        CanvasMovePan(pos) /\ ScrollInBounds /\ PolicyEvent("pan")

PolicyPanRelease ==
    /\ CanvasReleasePan
    /\ PolicyEvent("pan")

PolicyWheel ==
    \E up \in BOOLEAN :
        Wheel(up, ViewCentre) /\ ScrollInBounds /\ PolicyEvent("wheel")

PolicyArrange ==
    /\ AutoArrange
    /\ PolicyEvent("arrange")

PolicyLoad ==
    \E name \in {"B"} :
        /\ LET listing == FolderFiles(name)
               spot == [k \in 1..Len(listing) |-> RandomSpots[k]]
           IN  LoadImages(listing, spot)
        /\ PolicyEvent("load")

PolicyPass ==
    /\ LodTimeout
    /\ hist' = [hist EXCEPT !.last = "pass"]

PolicyWait ==
    /\ lod_active
    /\ Tick(lod_remaining)
    /\ hist' = [hist EXCEPT !.last = "wait"]

NextPolicy ==
    \/ PolicySelect
    \/ PolicyHover
    \/ PolicyPress
    \/ PolicyDrag
    \/ PolicyResize
    \/ PolicyRelease
    \/ PolicyPanPress
    \/ PolicyPanMove
    \/ PolicyPanRelease
    \/ PolicyWheel
    \/ PolicyArrange
    \/ PolicyLoad
    \/ PolicyPass
    \/ PolicyWait

SpecPolicy == InitPolicy /\ [][NextPolicy]_vars

\* C26: whenever the lod_timer is idle, an item holds its high-resolution bitmap
\* exactly when the zoom is above 0.5 and its footprint intersects the visible
\* rect (every file decodes).
C26_IdleTimerMeansPolicyHolds ==
    ~lod_active =>
        \A i \in DOMAIN scene :
            scene[i].high_res_pixmap <=>
                (RLt(R(1, 2), zoom) /\
                 Intersects(SceneBoundingRect(scene[i]),
                            ViewRectOf(zoom, hval, vval, vw, vh)))

-----------------------------------------------------------------------------
(* SpecReview: folders are opened, closed and refreshed, files are selected *)
(* in the side bar and decisions are made, with the overview switched off.  *)
(* hist.events    events so far                                            *)
(* hist.key       the key the last handle_decision stored under, 0 if none *)
(* hist.listed    whether that key was a file of the folder open then      *)

MaxReviewEvents == 5     \* events per behaviour

\* EditorArea.buttons_config: the decisions the buttons and shortcuts emit
Decisions == {"fail", "invalid", "pass"}

\* what review_results.json of folder A holds at the start: nothing, a decision
\* of an earlier session, or an entry whose value is none of the decisions
ReviewSidecars == {{}, {<<4, "pass">>}, {<<1, "skip">>}}

InitReview ==
    /\ scene = <<>>
    /\ decodable = 1..5
    /\ grabber = 0
    /\ zoom = I2R(1)
    /\ hval = -100 /\ vval = -100
    /\ vw = 200 /\ vh = 200
    /\ is_panning = FALSE /\ pan_start = <<0, 0>> /\ space_pressed = FALSE
    /\ lod_active = FALSE /\ lod_remaining = 0
    /\ revision = "win"
    /\ current_folder = ""
    /\ enable_overview = FALSE
    /\ max_image_width = MAX_IMAGE_WIDTH
    /\ grid_size = GRID_SIZE
    /\ files = <<>>
    /\ current_file = 0
    /\ results = {}
    /\ current_row = -1
    /\ \E stored \in ReviewSidecars :
          sidecar = [name \in FolderNames |-> IF name = "A" THEN stored ELSE {}]
    /\ hist = [events |-> 0, key |-> 0, listed |-> TRUE]

ReviewEvent ==
    /\ hist.events < MaxReviewEvents
    /\ hist' = [hist EXCEPT !.events = @ + 1]

ReviewOpen ==
    \E name \in FolderNames :
        /\ load_folder(name, FolderFiles(name), RandomSpots)
        /\ ReviewEvent

ReviewClose ==
    /\ current_folder # ""
    /\ close_folder
    /\ ReviewEvent

ReviewRefresh ==
    /\ current_folder # ""
    /\ refresh_folder(FolderFiles(current_folder))
    /\ ReviewEvent

ReviewSelect ==
    \E row \in 0..1 :
        /\ load_file(row)
        /\ ReviewEvent

ReviewDecide ==
    \E decision \in Decisions :
        /\ current_file # 0
        /\ handle_decision(decision)
        /\ hist.events < MaxReviewEvents
        /\ hist' = [events |-> hist.events + 1,
                    key |-> current_file,
                    listed |-> /\ current_folder # ""
                               /\ \E k \in DOMAIN files : files[k] = current_file]

NextReview ==
    \/ ReviewOpen
    \/ ReviewClose
    \/ ReviewRefresh
    \/ ReviewSelect
    \/ ReviewDecide

SpecReview == InitReview /\ [][NextReview]_vars

\* C28: every key handle_decision stores a decision under is a file of the
\* folder open at that moment, never a file selected in a folder opened before
\* or closed since
C28_DecisionKeyInOpenFolder ==
    hist.key # 0 => hist.listed

\* C29: the statistics partition the file list: passed + failed + invalid +
\* unreviewed is the number of files and no count is negative, whatever the
\* file list and the results, stored by decisions or read from
\* review_results.json
C29_StatsPartitionFiles ==
    LET stats == update_stats(files, results)
    IN  /\ stats.passed + stats.failed + stats.invalid + stats.unreviewed = stats.total
        /\ stats.passed >= 0 /\ stats.failed >= 0 /\ stats.invalid >= 0
        /\ stats.unreviewed >= 0 /\ stats.total >= 0

=============================================================================
